---- MODULE Spec2Model ----
(***************************************************************************)
(* A model of the agent orchestration core of DeepTutor:                   *)
(*   - extract_json_from_text   (src/agents/solve/utils/json_utils.py)     *)
(*   - PromptLoader             (src/agents/solve/utils/prompt_loader.py)  *)
(*   - BaseAgent.call_llm       (src/agents/solve/base_agent.py)           *)
(*   - BaseIdeaAgent.call_llm   (src/agents/ideagen/base_idea_agent.py)    *)
(*   - the propose/validate coordination run (AgentCoordinator)            *)
(*   - MaterialOrganizerAgent  (src/agents/ideagen/material_organizer_agent.py) *)
(* Each component has its own variables and its own specification; the     *)
(* variables of the other components stay unchanged under it.              *)
(***************************************************************************)
EXTENDS Integers, Sequences, FiniteSets, TLC

VARIABLES
    \* ---- extract_json_from_text ----
    text,        \* the argument of extract_json_from_text: a sequence of characters
    form,        \* how the text was built: "free", or "fence" / "bare" / "noise" from a value
    V,           \* the JSON value the text was built from (NoValue for a free text)
    result,      \* Pending, or the outcome of extract_json_from_text(text)
    \* ---- PromptLoader ----
    language,    \* PromptLoader.language
    cache,       \* PromptLoader._cache: cache key -> built prompts
    files,       \* the template files under base_dir: <<language, agent_name>> -> content
    last,        \* the last PromptLoader call: its arguments, outcome and file access
    edits,       \* the number of changes made to template files so far
    loaded,      \* <<agent_name, version>> -> what the first successful load of these
                 \* arguments returned since the last reload, clear_cache or
                 \* set_language (NoPrompts if none yet)
    reads,       \* <<agent_name, version>> -> whether a later load of these
                 \* arguments opened the template file
    \* ---- BaseAgent.call_llm and BaseIdeaAgent.call_llm ----
    env_model,     \* os.getenv("LLM_MODEL"): "" when unset or empty
    token_tracker, \* BaseAgent.token_tracker: "none", "basic" or "advanced"
    max_retries,   \* what get_max_retries() returns
    usage_history, \* the records added to the token tracker
    stats_calls,   \* the calls added to the shared LLMStats of BaseIdeaAgent
    log,           \* the events given to the logger
    call,          \* the call_llm in progress, or the last one finished
    ncalls,        \* the number of call_llm invocations so far
    \* ---- one coordination run (ReActCoordinator / ValidationWorkflow) ----
    max_iterations, \* the configured maximum iteration count
    cancel,         \* whether the cancellation signal has been raised
    run,            \* the run: state, counters, feedback, history, result
    \* ---- MaterialOrganizerAgent.process ----
    records,        \* len(records), the number of notebook records given to process
    mo,             \* the call of process: position, completion calls, answers, outcome
    \* ---- BaseAgent.__init__ ----
    agent,          \* the BaseAgent under construction: its prompts and how __init__ ended
    \* ---- usage tracking shared by concurrent tasks ----
    display,        \* a TerminalDisplay: token_usage per model and total_tokens
    shared_stats,   \* BaseIdeaAgent._shared_stats: NoStats, or the calls counted
    additions,      \* the usage additions made so far, in the order they were made
    \* ---- ConfigManager ----
    disk,           \* config/main.yaml: its content and its modification time
    heap,           \* the section dictionaries made so far: object -> value
    cm,             \* the ConfigManager: _config_cache and _last_mtime
    threads,        \* per thread: the call in progress or last made, what it holds
    ops,            \* the number of calls and caller changes so far
    \* ---- web_search ----
    request,        \* the environment of one web_search call and the completion it gets
    searched        \* NotSearched, or the outcome of web_search

jsonVars == <<text, form, V, result>>
loaderVars == <<language, cache, files, last, edits, loaded, reads>>
agentVars == <<env_model, token_tracker, max_retries, usage_history, stats_calls,
               log, call, ncalls>>
coordVars == <<max_iterations, cancel, run>>
organizerVars == <<records, mo>>
constructVars == <<agent>>
usageVars == <<display, shared_stats, additions>>
configVars == <<disk, heap, cm, threads, ops>>
searchVars == <<request, searched>>
restVars == <<usageVars, configVars, searchVars>>
vars == <<jsonVars, loaderVars, agentVars, coordVars, organizerVars, constructVars, restVars>>

(***************************************************************************)
(* Characters.  A text is a sequence of characters; the three backticks of *)
(* a code fence, the word json and the literal null are one character each.*)
(***************************************************************************)
FENCE == "fence"
TAG   == "json"
QT    == "\""
WS    == " "

\* Python values produced by json.loads: one record per type.
JNull      == [t |-> "null", v |-> <<>>]
JNum(ds)   == [t |-> "num",  v |-> ds]
JStr(cs)   == [t |-> "str",  v |-> cs]
JArr(xs)   == [t |-> "arr",  v |-> xs]
JObj(f)    == [t |-> "obj",  v |-> f]
PyNone     == JNull
NoValue    == [t |-> "none", v |-> <<>>]

(***************************************************************************)
(* json.loads: a recursive-descent parse of one JSON value at position i.  *)
(* The outcome is [ok, val, next]: next is the position after the value.   *)
(***************************************************************************)
ParseFail == [ok |-> FALSE, val |-> JNull, next |-> 0]
ParseOk(val, next) == [ok |-> TRUE, val |-> val, next |-> next]

RECURSIVE SkipWs(_, _)
SkipWs(s, i) == IF i <= Len(s) /\ s[i] = WS THEN SkipWs(s, i + 1) ELSE i

RECURSIVE ScanDigits(_, _)
ScanDigits(s, i) == IF i <= Len(s) /\ s[i] = "1" THEN ScanDigits(s, i + 1) ELSE i

\* position of the first character c at or after i, or 0
RECURSIVE IndexFrom(_, _, _)
IndexFrom(s, c, i) ==
    IF i > Len(s) THEN 0
    ELSE IF s[i] = c THEN i
    ELSE IndexFrom(s, c, i + 1)

\* position of the last character c at or before i, or 0
RECURSIVE LastIndexFrom(_, _, _)
LastIndexFrom(s, c, i) ==
    IF i < 1 THEN 0
    ELSE IF s[i] = c THEN i
    ELSE LastIndexFrom(s, c, i - 1)

\* a string literal starting at the quote at position i
ParseString(s, i) ==
    LET j == IndexFrom(s, QT, i + 1)
    IN  IF j = 0 THEN ParseFail
        ELSE ParseOk(JStr(SubSeq(s, i + 1, j - 1)), j + 1)

RECURSIVE ParseValue(_, _), ParseArrayItems(_, _, _), ParseObjectItems(_, _, _)

\* the items of an array, i at the first character of an item
ParseArrayItems(s, i, acc) ==
    LET r == ParseValue(s, i)
    IN  IF ~r.ok THEN ParseFail
        ELSE LET j == SkipWs(s, r.next)
                 items == Append(acc, r.val)
             IN  IF j > Len(s) THEN ParseFail
                 ELSE IF s[j] = "]" THEN ParseOk(JArr(items), j + 1)
                 ELSE IF s[j] = "," THEN ParseArrayItems(s, SkipWs(s, j + 1), items)
                 ELSE ParseFail

\* the pairs of an object, i at the quote of a key; a repeated key keeps the last value
ParseObjectItems(s, i, acc) ==
    IF i > Len(s) \/ s[i] # QT THEN ParseFail
    ELSE
    LET k == ParseString(s, i)
    IN  IF ~k.ok THEN ParseFail
        ELSE LET c == SkipWs(s, k.next)
             IN  IF c > Len(s) \/ s[c] # ":" THEN ParseFail
                 ELSE LET r == ParseValue(s, SkipWs(s, c + 1))
                      IN  IF ~r.ok THEN ParseFail
                          ELSE LET j == SkipWs(s, r.next)
                                   pairs == (k.val.v :> r.val) @@ acc
                               IN  IF j > Len(s) THEN ParseFail
                                   ELSE IF s[j] = "}" THEN ParseOk(JObj(pairs), j + 1)
                                   ELSE IF s[j] = ","
                                        THEN ParseObjectItems(s, SkipWs(s, j + 1), pairs)
                                   ELSE ParseFail

ParseValue(s, i) ==
    IF i > Len(s) THEN ParseFail
    ELSE IF s[i] = QT THEN ParseString(s, i)
    ELSE IF s[i] = "1" THEN
        LET j == ScanDigits(s, i) IN ParseOk(JNum(SubSeq(s, i, j - 1)), j)
    ELSE IF s[i] = "null" THEN ParseOk(JNull, i + 1)
    ELSE IF s[i] = "[" THEN
        LET j == SkipWs(s, i + 1)
        IN  IF j <= Len(s) /\ s[j] = "]" THEN ParseOk(JArr(<<>>), j + 1)
            ELSE ParseArrayItems(s, j, <<>>)
    ELSE IF s[i] = "{" THEN
        LET j == SkipWs(s, i + 1)
        IN  IF j <= Len(s) /\ s[j] = "}" THEN ParseOk(JObj(<<>>), j + 1)
            ELSE ParseObjectItems(s, j, <<>>)
    ELSE ParseFail

\* json.loads(s): [ok |-> TRUE, val] or, on json.JSONDecodeError, [ok |-> FALSE]
json_loads(s) ==
    LET r == ParseValue(s, SkipWs(s, 1))
    IN  IF r.ok /\ SkipWs(s, r.next) = Len(s) + 1
        THEN [ok |-> TRUE, val |-> r.val]
        ELSE [ok |-> FALSE, val |-> JNull]

\* str.strip(): drop leading and trailing whitespace
RECURSIVE LStrip(_)
LStrip(s) == IF s # <<>> /\ Head(s) = WS THEN LStrip(Tail(s)) ELSE s
RECURSIVE RStrip(_)
RStrip(s) == IF s # <<>> /\ s[Len(s)] = WS THEN RStrip(SubSeq(s, 1, Len(s) - 1)) ELSE s
Strip(s) == RStrip(LStrip(s))

NoMatch == [found |-> FALSE, group |-> <<>>]
Match(g) == [found |-> TRUE, group |-> g]

\* a search that ignores the optional json tag after the opening fence
code_block_search_notag(s) ==
    LET i == IndexFrom(s, FENCE, 1)
        j == IF i = 0 THEN 0 ELSE IndexFrom(s, FENCE, i + 1)
    IN  IF j = 0 THEN NoMatch ELSE Match(Strip(SubSeq(s, i + 1, j - 1)))

\* code_block_pattern.search(s), the pattern being a fence, (?:json)?, \s*,
\* ([\s\S]*?), \s*, a fence: the first fence, an
\* optional json tag, and the shortest content up to the next fence; group(1)
code_block_search(s) ==
    LET i == IndexFrom(s, FENCE, 1)
        b == IF i # 0 /\ i + 1 <= Len(s) /\ s[i + 1] = TAG THEN i + 2 ELSE i + 1
        j == IF i = 0 THEN 0 ELSE IndexFrom(s, FENCE, b)
    IN  IF j = 0 THEN NoMatch ELSE Match(Strip(SubSeq(s, b, j - 1)))

\* re.compile(open [\s\S]* close).search(s): greedy, from the first opening
\* character to the last closing character after it; group(0)
span_search(s, open, close) ==
    LET i == IndexFrom(s, open, 1)
        j == LastIndexFrom(s, close, Len(s))
    IN  IF i = 0 \/ j <= i THEN NoMatch ELSE Match(SubSeq(s, i, j))

json_obj_pattern_search(s) == span_search(s, "{", "}")
json_arr_pattern_search(s) == span_search(s, "[", "]")

\* the outcome of a call: a returned value or a raised exception
Return(val) == [raised |-> FALSE, val |-> val]
Raise       == [raised |-> TRUE,  val |-> PyNone]
Pending     == [raised |-> FALSE, val |-> NoValue]

\* the array pattern tried before the object pattern
extract_json_from_text_arr_first(s) ==
    IF s = <<>> THEN Return(PyNone)
    ELSE
    LET match     == code_block_search(s)
        block     == json_loads(Strip(match.group))
        direct    == json_loads(s)
        match_obj == json_obj_pattern_search(s)
        obj       == json_loads(match_obj.group)
        match_arr == json_arr_pattern_search(s)
        arr       == json_loads(match_arr.group)
    IN  IF match.found /\ block.ok THEN Return(block.val)
        ELSE IF direct.ok THEN Return(direct.val)
        ELSE IF match_arr.found /\ arr.ok THEN Return(arr.val)
        ELSE IF match_obj.found /\ obj.ok THEN Return(obj.val)
        ELSE Return(PyNone)

\* the direct parse of the whole text outside a try block
extract_json_from_text_unguarded(s) ==
    IF s = <<>> THEN Return(PyNone)
    ELSE
    LET match     == code_block_search(s)
        block     == json_loads(Strip(match.group))
        direct    == json_loads(s)
    IN  IF match.found /\ block.ok THEN Return(block.val)
        ELSE IF direct.ok THEN Return(direct.val)
        ELSE Raise

\* the code block pattern without its optional json tag
extract_json_from_text_notag(s) ==
    IF s = <<>> THEN Return(PyNone)
    ELSE
    LET match     == code_block_search_notag(s)
        block     == json_loads(Strip(match.group))
        direct    == json_loads(s)
        match_obj == json_obj_pattern_search(s)
        obj       == json_loads(match_obj.group)
        match_arr == json_arr_pattern_search(s)
        arr       == json_loads(match_arr.group)
    IN  IF match.found /\ block.ok THEN Return(block.val)
        ELSE IF direct.ok THEN Return(direct.val)
        ELSE IF match_obj.found /\ obj.ok THEN Return(obj.val)
        ELSE IF match_arr.found /\ arr.ok THEN Return(arr.val)
        ELSE Return(PyNone)

(***************************************************************************)
(* extract_json_from_text(text).  Every json.loads sits in its own         *)
(* try / except json.JSONDecodeError: pass, so a failed parse goes on to   *)
(* the next attempt.                                                       *)
(***************************************************************************)
extract_json_from_text(s) ==
    IF s = <<>> THEN Return(PyNone)                              \* if not text
    ELSE
    LET match     == code_block_search(s)
        block     == json_loads(Strip(match.group))              \* group(1).strip()
        direct    == json_loads(s)
        match_obj == json_obj_pattern_search(s)
        obj       == json_loads(match_obj.group)
        match_arr == json_arr_pattern_search(s)
        arr       == json_loads(match_arr.group)
    IN  IF match.found /\ block.ok THEN Return(block.val)
        ELSE IF direct.ok THEN Return(direct.val)
        ELSE IF match_obj.found /\ obj.ok THEN Return(obj.val)
        ELSE IF match_arr.found /\ arr.ok THEN Return(arr.val)
        ELSE Return(PyNone)

(***************************************************************************)
(* The texts extract_json_from_text is applied to.                         *)
(***************************************************************************)
MaxLen   == 4      \* every text of at most MaxLen characters of FreeAlphabet
MaxWidth == 2      \* the longest array among the values that are serialised

FreeAlphabet == {"{", "}", "[", "]", "1", ",", FENCE, WS}

SeqsUpTo(S, n) == UNION {[1..k -> S] : k \in 0..n}

\* pieces of a model answer: prose, valid and invalid spans, fenced blocks
Fragments ==
    { <<>>,
      <<"a", WS>>,
      <<"{", QT, "a", QT, ":", "1", "}">>,
      <<"{", "a", "}">>,
      <<"[", "1", "]">>,
      <<"[", "a", "]">>,
      <<FENCE, TAG, WS, "{", "}", WS, FENCE>>,
      <<FENCE, "[", "1", ",", "]", FENCE>>,
      <<FENCE, WS, "1", FENCE>>,
      <<FENCE, "a", FENCE>>,
      <<"null">> }

FreeTexts ==
    SeqsUpTo(FreeAlphabet, MaxLen)
        \cup {f \o g \o h : f \in Fragments, g \in Fragments, h \in Fragments}

\* the values that are serialised: objects and arrays over a pool of elements
KeyA == <<"a">>
KeyB == <<"b">>
Pool ==
    { JNum(<<"1">>), JStr(<<"a">>), JStr(<<"{", "}">>), JNull,
      JArr(<<>>), JArr(<<JNum(<<"1">>)>>), JObj(<<>>), JObj(KeyA :> JNum(<<"1">>)),
      JArr(<<JObj(KeyA :> JNum(<<"1">>))>>), JObj(KeyA :> JArr(<<JNum(<<"1">>)>>)),
      JObj(KeyA :> JObj(KeyB :> JStr(<<"a">>))) }

Arrays  == {JArr(xs) : xs \in SeqsUpTo(Pool, MaxWidth)}
Objects == {JObj(<<>>)}
             \cup {JObj(KeyA :> x) : x \in Pool}
             \cup {JObj((KeyA :> x) @@ (KeyB :> y)) : x \in Pool, y \in Pool}
Values  == Arrays \cup Objects

\* json.dumps(val) with its default separators ", " and ": "
RECURSIVE Dumps(_), DumpItems(_), DumpPairs(_, _)
DumpItems(xs) ==
    IF xs = <<>> THEN <<>>
    ELSE Dumps(Head(xs))
           \o (IF Len(xs) > 1 THEN <<",", WS>> ELSE <<>>) \o DumpItems(Tail(xs))
DumpPairs(f, keys) ==
    IF keys = <<>> THEN <<>>
    ELSE LET k == Head(keys)
             rest == DumpPairs(f, Tail(keys))
         IN  IF k \in DOMAIN f
             THEN <<QT>> \o k \o <<QT, ":", WS>> \o Dumps(f[k])
                    \o (IF rest # <<>> THEN <<",", WS>> ELSE <<>>) \o rest
             ELSE rest
Dumps(val) ==
    CASE val.t = "null" -> <<"null">>
      [] val.t = "num"  -> val.v
      [] val.t = "str"  -> <<QT>> \o val.v \o <<QT>>
      [] val.t = "arr"  -> <<"[">> \o DumpItems(val.v) \o <<"]">>
      [] val.t = "obj"  -> <<"{">> \o DumpPairs(val.v, <<KeyA, KeyB>>) \o <<"}">>

Fence(s)      == <<FENCE, TAG, WS>> \o s \o <<WS, FENCE>>    \* fence json \n s \n fence
FencePlain(s) == <<FENCE, WS>> \o s \o <<WS, FENCE>>         \* fence \n s \n fence
Noise(s)      == <<"a", WS>> \o s \o <<WS, "a">>             \* "noise " + s + " noise"

Forms == {"fence", "fencePlain", "bare", "noise"}
Build(f, val) ==
    CASE f = "fence"      -> Fence(Dumps(val))
      [] f = "fencePlain" -> FencePlain(Dumps(val))
      [] f = "bare"       -> Dumps(val)
      [] f = "noise"      -> Noise(Dumps(val))

JsonInit ==
    /\ result = Pending
    /\ \/ /\ form = "free"
          /\ V = NoValue
          /\ text \in FreeTexts
       \/ /\ form \in Forms
          /\ V \in Values
          /\ text = Build(form, V)

\* one call of extract_json_from_text(text)
Extract ==
    /\ result = Pending
    /\ result' = extract_json_from_text(text)
    /\ UNCHANGED <<text, form, V>>

(***************************************************************************)
(* Properties of extract_json_from_text.                                   *)
(***************************************************************************)
Failure == [ok |-> FALSE, val |-> JNull]

\* the four attempts, each taken by itself
Stage1(s) ==
    LET m == code_block_search(s)
    IN  IF m.found THEN json_loads(m.group) ELSE Failure
Stage2(s) == json_loads(s)
Stage3(s) ==
    LET m == json_obj_pattern_search(s)
    IN  IF m.found THEN json_loads(m.group) ELSE Failure
Stage4(s) ==
    LET m == json_arr_pattern_search(s)
    IN  IF m.found THEN json_loads(m.group) ELSE Failure
Stages(s) == <<Stage1(s), Stage2(s), Stage3(s), Stage4(s)>>

FirstParsed(s) ==
    LET st == Stages(s)
        ok == {k \in 1..4 : st[k].ok}
    IN  IF ok = {} THEN PyNone
        ELSE st[CHOOSE k \in ok : \A m \in ok : k <= m].val

\* C3: the result is the value of the first attempt that parses, in the order
\* fenced block, whole text, object span (first "{" to last "}"), array span
\* (first "[" to last "]"); a failed attempt falls through to the next one.
C3_StageOrder ==
    result # Pending => result = Return(FirstParsed(text))

\* C3 witness: the fenced block and the whole text fail, an object span and an
\* array span both parse to different values, and the object's value is returned.
C3_Witness ==
    /\ result # Pending
    /\ code_block_search(text).found
    /\ ~Stage1(text).ok /\ ~Stage2(text).ok
    /\ Stage3(text).ok /\ Stage4(text).ok
    /\ Stage3(text).val # Stage4(text).val
    /\ result = Return(Stage3(text).val)

\* the span from the first "{" to the last "}" of a text parses as JSON
ObjSpanParses(s) == Stage3(s).ok

\* C4 as stated: every object or array round-trips in the fenced, the bare and
\* the noise-wrapped form.
C4_RoundTripAll ==
    (form \in Forms /\ result # Pending) => result = Return(V)

\* C4 amended: fenced and bare forms round-trip every object and array; the
\* noise-wrapped form round-trips every object, and every array whose text from
\* its first "{" to its last "}" is not itself valid JSON; for the other arrays
\* the noise-wrapped form returns the value of that embedded span.
C4_RoundTrip ==
    (form \in Forms /\ result # Pending) =>
        IF form = "noise" /\ V.t = "arr" /\ ObjSpanParses(Dumps(V))
        THEN result = Return(Stage3(Dumps(V)).val) /\ result # Return(V)
        ELSE result = Return(V)

\* C4 witness: a noise-wrapped array of two objects came back unchanged.
C4_Witness ==
    /\ form = "noise" /\ V.t = "arr" /\ Len(V.v) = 2
    /\ V.v[1].t = "obj" /\ V.v[2].t = "obj"
    /\ result = Return(V)

\* C5: extract_json_from_text never raises, and it returns None when the
\* fenced block, the whole text, the object span and the array span all fail.
C5_NeverRaises ==
    result # Pending =>
        /\ ~result.raised
        /\ (\A k \in 1..4 : ~Stages(text)[k].ok) => result = Return(PyNone)

\* C5 witness: a text with a fenced block, braces and brackets, none of them
\* valid JSON, gave None.
C5_Witness ==
    /\ result = Return(PyNone)
    /\ code_block_search(text).found
    /\ json_obj_pattern_search(text).found
    /\ json_arr_pattern_search(text).found
    /\ \A k \in 1..4 : ~Stages(text)[k].ok

(***************************************************************************)
(* PromptLoader.  A string is a sequence of characters (a word that is     *)
(* never split counts as one character); a YAML value is one record per    *)
(* type.                                                                   *)
(***************************************************************************)
YNull      == [t |-> "null", v |-> <<>>]
YNum(n)    == [t |-> "num",  v |-> n]
YStr(cs)   == [t |-> "str",  v |-> cs]
YList(xs)  == [t |-> "list", v |-> xs]
YMap(f)    == [t |-> "map",  v |-> f]

\* key in container, as Python evaluates it: "yes", "no" or "TypeError"
PyIn(key, c) ==
    CASE c.t = "map"  -> IF key \in DOMAIN c.v THEN "yes" ELSE "no"
      [] c.t = "str"  -> IF \E i \in 1..Len(c.v) : c.v[i] = key THEN "yes" ELSE "no"
      [] c.t = "list" -> IF \E i \in 1..Len(c.v) : c.v[i] = YStr(<<key>>)
                         THEN "yes" ELSE "no"
      [] OTHER        -> "TypeError"

\* bool(value)
Truthy(c) ==
    CASE c.t = "null" -> FALSE
      [] c.t = "num"  -> c.v # 0
      [] c.t = "map"  -> DOMAIN c.v # {}
      [] OTHER        -> c.v # <<>>

NoExc == "none"
Checked(exc, type) == [exc |-> exc, type |-> type]

(***************************************************************************)
(* PromptLoader._validate_config(config, agent_name): the shape of the     *)
(* configuration, or the exception raised.                                 *)
(***************************************************************************)
_validate_config(config) ==
    LET hasSystem == PyIn("system", config)
    IN  IF hasSystem = "TypeError" THEN Checked("TypeError", "")
        ELSE IF hasSystem = "no" THEN Checked("ValueError", "")
        ELSE IF config.t # "map" THEN Checked("TypeError", "")       \* config["system"]
        ELSE
        LET system_section == config.v["system"]
        IN  IF system_section.t = "map" THEN
                IF "user" \notin DOMAIN config.v THEN Checked("ValueError", "")
                ELSE IF "role" \notin DOMAIN system_section.v
                        \/ "task" \notin DOMAIN system_section.v
                     THEN Checked("ValueError", "")
                ELSE LET hasTemplate == PyIn("template", config.v["user"])
                     IN  IF hasTemplate = "TypeError" THEN Checked("TypeError", "")
                         ELSE IF hasTemplate = "no" THEN Checked("ValueError", "")
                         ELSE Checked(NoExc, "structured")
            ELSE IF system_section.t # "str" THEN Checked("ValueError", "")
            ELSE IF "user_template" \notin DOMAIN config.v THEN Checked("ValueError", "")
            ELSE IF config.v["user_template"].t # "str" THEN Checked("ValueError", "")
            ELSE Checked(NoExc, "raw")

Built(exc, prompts) == [exc |-> exc, prompts |-> prompts]
NoPrompts == <<>>

\* str(value) inside an f-string
Format(c) == IF c.t = "str" THEN c.v ELSE <<"<", c.t, ">">>

\* the elements of a set in some order
RECURSIVE SetToSeq(_)
SetToSeq(S) ==
    IF S = {} THEN <<>>
    ELSE LET x == CHOOSE y \in S : TRUE IN <<x>> \o SetToSeq(S \ {x})

\* the items a for loop draws from a value (the keys of a mapping, in some
\* order); a number or null cannot be iterated
Iterable(c) == c.t \in {"list", "str", "map"}
Items(c) ==
    CASE c.t = "list" -> c.v
      [] c.t = "str"  -> [i \in 1..Len(c.v) |-> YStr(<<c.v[i]>>)]
      [] c.t = "map"  -> [i \in 1..Cardinality(DOMAIN c.v) |->
                             YStr(<<SetToSeq(DOMAIN c.v)[i]>>)]
      [] OTHER        -> <<>>

RECURSIVE Bullets(_)
Bullets(items) ==
    IF items = <<>> THEN <<>>
    ELSE <<YStr(<<"- ">> \o Format(Head(items)))>> \o Bullets(Tail(items))

\* a section that is written whenever its key is present
Section_always(system_config, name, header) ==
    IF name \in DOMAIN system_config
    THEN <<YStr(<<>>), YStr(<<header>>)>> \o Bullets(Items(system_config[name]))
    ELSE <<>>

\* one optional section of a structured system prompt: header and bullets
Section(system_config, name, header) ==
    IF name \in DOMAIN system_config /\ Truthy(system_config[name])
    THEN <<YStr(<<>>), YStr(<<header>>)>> \o Bullets(Items(system_config[name]))
    ELSE <<>>

\* "\n".join(parts)
RECURSIVE Join(_)
Join(parts) ==
    IF parts = <<>> THEN <<>>
    ELSE IF Len(parts) = 1 THEN Head(parts).v
    ELSE Head(parts).v \o <<"\n">> \o Join(Tail(parts))

(***************************************************************************)
(* PromptLoader._build_prompts(config, config_type)                        *)
(***************************************************************************)
_build_prompts(config, config_type) ==
    IF config_type = "structured" THEN
        LET system_config == config.v["system"].v
            user_config   == config.v["user"]
            hasFormat     == "output_format" \in DOMAIN system_config
                               /\ Truthy(system_config["output_format"])
            system_parts  ==
                <<YStr(<<"You are ">> \o Format(system_config["role"]) \o <<".">>),
                  YStr(<<>>),
                  system_config["task"]>>
                \o Section(system_config, "requirements", "Requirements:")
                \o Section(system_config, "constraints", "Constraints:")
                \o (IF hasFormat
                    THEN <<YStr(<<>>), YStr(<<"Output Format:">>),
                           system_config["output_format"]>>
                    ELSE <<>>)
                \o Section(system_config, "notes", "Notes:")
            sections      == {"requirements", "constraints", "notes"}
        IN  IF \E n \in sections \cap DOMAIN system_config :
                   Truthy(system_config[n]) /\ ~Iterable(system_config[n])
            THEN Built("TypeError", NoPrompts)           \* for ... in a number
            ELSE IF \E i \in 1..Len(system_parts) : system_parts[i].t # "str"
            THEN Built("TypeError", NoPrompts)           \* join of a non-string
            ELSE IF user_config.t # "map"
            THEN Built("TypeError", NoPrompts)           \* user_config["template"]
            ELSE Built(NoExc,
                       [system        |-> YStr(Join(system_parts)),
                        user_template |-> user_config.v["template"],
                        output_format |-> IF hasFormat
                                          THEN system_config["output_format"]
                                          ELSE YStr(<<>>)])
    ELSE Built(NoExc,
               [k \in DOMAIN config.v \cup {"system", "user_template"} |->
                   IF k \in DOMAIN config.v THEN config.v[k] ELSE YStr(<<>>)])

(***************************************************************************)
(* The template files and the calls made to one PromptLoader.              *)
(***************************************************************************)
MaxEdits == 1      \* changes made to template files in one behaviour

Langs      == {"zh", "en"}
AgentNames == {<<"a">>, <<"a", "_", "b">>}
Versions   == {<<"latest">>, <<"b", "_", "latest">>}

\* file contents: no file, a file yaml.safe_load cannot parse, or the value
\* yaml.safe_load gives
Missing     == [t |-> "missing", v |-> <<>>]
Unparsable  == [t |-> "invalid", v |-> <<>>]
RawCfg      == YMap([system        |-> YStr(<<"S">>),
                     user_template |-> YStr(<<"U">>),
                     examples      |-> YStr(<<"X">>)])
StructCfg   == YMap([system |-> YMap([role         |-> YStr(<<"R">>),
                                      task         |-> YStr(<<"T">>),
                                      requirements |-> YList(<<YStr(<<"q">>)>>),
                                      output_format |-> YStr(<<"F">>)]),
                     user   |-> YMap([template |-> YStr(<<"P">>)])])
NoSystemCfg == YMap([user_template |-> YStr(<<"U">>)])
Contents    == {RawCfg, StructCfg, NoSystemCfg}

Slots == Langs \X AgentNames

\* f"{agent_name}_{version}_{self.language}"
CacheKey(agent_name, version, lang) ==
    agent_name \o <<"_">> \o version \o <<"_">> \o <<lang>>

Remove(c, key) == [k \in DOMAIN c \ {key} |-> c[k]]
EmptyCache == <<>>

\* what one call did: the new cache, the exception raised (or none), the value
\* returned, and whether the template file was opened
Outcome(c, exc, ret, opened) == [cache |-> c, exc |-> exc, ret |-> ret, opened |-> opened]

\* a load that does not look into the cache
load_uncached(c, agent_name, version) ==
    LET cache_key   == CacheKey(agent_name, version, language)
        prompt_file == files[<<language, agent_name>>]
        checked     == _validate_config(prompt_file)
        built       == _build_prompts(prompt_file, checked.type)
    IN  IF prompt_file = Missing THEN Outcome(c, "FileNotFoundError", NoPrompts, FALSE)
        ELSE IF prompt_file = Unparsable THEN Outcome(c, "ValueError", NoPrompts, TRUE)
        ELSE IF checked.exc # NoExc THEN Outcome(c, checked.exc, NoPrompts, TRUE)
        ELSE IF built.exc # NoExc THEN Outcome(c, built.exc, NoPrompts, TRUE)
        ELSE Outcome((cache_key :> built.prompts) @@ c, NoExc, built.prompts, TRUE)

(***************************************************************************)
(* PromptLoader.load(agent_name, version) on the cache c.  The file looked *)
(* up is base_dir/language/agent_name.yaml or, failing that, the first     *)
(* agent_name.yaml under the language directory; files holds what that     *)
(* lookup finds.                                                           *)
(***************************************************************************)
load(c, agent_name, version) ==
    LET cache_key   == CacheKey(agent_name, version, language)
        prompt_file == files[<<language, agent_name>>]
        checked     == _validate_config(prompt_file)
        built       == _build_prompts(prompt_file, checked.type)
    IN  IF cache_key \in DOMAIN c THEN Outcome(c, NoExc, c[cache_key], FALSE)
        ELSE IF prompt_file = Missing
        THEN Outcome(c, "FileNotFoundError", NoPrompts, FALSE)
        ELSE IF prompt_file = Unparsable
        THEN Outcome(c, "ValueError", NoPrompts, TRUE)         \* except Exception, line 98
        ELSE IF checked.exc # NoExc THEN Outcome(c, checked.exc, NoPrompts, TRUE)
        ELSE IF built.exc # NoExc THEN Outcome(c, built.exc, NoPrompts, TRUE)
        ELSE Outcome((cache_key :> built.prompts) @@ c, NoExc, built.prompts, TRUE)

\* a reload that drops every entry
reload_all(c, agent_name, version) == load(EmptyCache, agent_name, version)

\* PromptLoader.reload(agent_name, version): delete the key, then load
reload(c, agent_name, version) ==
    load(Remove(c, CacheKey(agent_name, version, language)), agent_name, version)

\* a language switch that keeps the cache
set_language_keep(c, lang) ==
    IF lang \notin {"zh", "en"} THEN [language |-> language, cache |-> c, exc |-> "ValueError"]
    ELSE [language |-> lang, cache |-> c, exc |-> NoExc]

\* PromptLoader.set_language(language)
set_language(c, lang) ==
    IF lang \notin {"zh", "en"} THEN [language |-> language, cache |-> c, exc |-> "ValueError"]
    ELSE [language |-> lang, cache |-> EmptyCache, exc |-> NoExc]

\* PromptLoader.clear_cache()
clear_cache(c) == EmptyCache

Call(op, agent_name, version, exc, ret, opened) ==
    [op |-> op, agent_name |-> agent_name, version |-> version,
     exc |-> exc, ret |-> ret, opened |-> opened]

\* the template files a behaviour starts from; WriteFile changes them
InitialFiles ==
    (<<"zh", <<"a">>>> :> RawCfg) @@ (<<"zh", <<"a", "_", "b">>>> :> StructCfg)
        @@ (<<"en", <<"a">>>> :> NoSystemCfg) @@ (<<"en", <<"a", "_", "b">>>> :> Missing)

Args       == AgentNames \X Versions
NoneLoaded == [a \in Args |-> NoPrompts]
NoReads    == [a \in Args |-> FALSE]

LoaderInit ==
    /\ language \in Langs
    /\ cache = EmptyCache
    /\ files = InitialFiles
    /\ last = Call("init", <<>>, <<>>, NoExc, NoPrompts, FALSE)
    /\ edits = 0
    /\ loaded = NoneLoaded
    /\ reads = NoReads

Load(agent_name, version) ==
    LET o    == load(cache, agent_name, version)
        args == <<agent_name, version>>
    IN  /\ cache' = o.cache
        /\ last' = Call("load", agent_name, version, o.exc, o.ret, o.opened)
        /\ IF loaded[args] = NoPrompts
           THEN /\ loaded' = IF o.exc = NoExc THEN [loaded EXCEPT ![args] = o.ret]
                                              ELSE loaded
                /\ reads' = reads
           ELSE /\ loaded' = loaded
                /\ reads' = IF o.opened THEN [reads EXCEPT ![args] = TRUE] ELSE reads
        /\ UNCHANGED <<language, files, edits>>

Reload(agent_name, version) ==
    LET o == reload(cache, agent_name, version)
    IN  /\ cache' = o.cache
        /\ last' = Call("reload", agent_name, version, o.exc, o.ret, o.opened)
        /\ loaded' = NoneLoaded
        /\ reads' = NoReads
        /\ UNCHANGED <<language, files, edits>>

SetLanguage(lang) ==
    LET o == set_language(cache, lang)
    IN  /\ language' = o.language
        /\ cache' = o.cache
        /\ last' = Call("set_language", <<lang>>, <<>>, o.exc, NoPrompts, FALSE)
        /\ loaded' = IF o.exc = NoExc THEN NoneLoaded ELSE loaded
        /\ reads' = IF o.exc = NoExc THEN NoReads ELSE reads
        /\ UNCHANGED <<files, edits>>

ClearCache ==
    /\ cache' = clear_cache(cache)
    /\ last' = Call("clear_cache", <<>>, <<>>, NoExc, NoPrompts, FALSE)
    /\ loaded' = NoneLoaded
    /\ reads' = NoReads
    /\ UNCHANGED <<language, files, edits>>

\* the environment writes, replaces or deletes a template file
WriteFile(slot, content) ==
    /\ edits < MaxEdits
    /\ files[slot] # content
    /\ files' = [files EXCEPT ![slot] = content]
    /\ edits' = edits + 1
    /\ last' = Call("write", <<>>, <<>>, NoExc, NoPrompts, FALSE)
    /\ UNCHANGED <<language, cache, loaded, reads>>

(***************************************************************************)
(* Properties of PromptLoader.                                             *)
(***************************************************************************)
LastArgs == <<last.agent_name, last.version>>

\* C1: with no reload, clear_cache or set_language in between, the loads of one
\* (agent_name, version) after the first successful one never open the
\* template file (so the file is read at most once), and each returns the value
\* the first one returned, whatever has happened to the file since.
C1_LoadCached ==
    /\ \A a \in Args : ~reads[a]
    /\ (last.op = "load" /\ loaded[LastArgs] # NoPrompts) =>
           /\ last.exc = NoExc
           /\ last.ret = loaded[LastArgs]

\* C1 witness: a load answered from the cache after its template file was deleted.
C1_Witness ==
    /\ last.op = "load" /\ last.exc = NoExc /\ ~last.opened
    /\ last.ret = loaded[LastArgs]
    /\ files[<<language, last.agent_name>>] = Missing

\* C2: clear_cache and a set_language to a supported language leave the cache
\* empty; reload(agent_name, version) opens the file whenever there is one,
\* changes no entry but the one of its own key, and leaves that entry holding
\* what it read (or absent when the read failed); a load whose key is not in the
\* cache opens the file.
C2_InvalidationScope ==
    [][ LET key  == CacheKey(last'.agent_name, last'.version, language)
            file == files[<<language, last'.agent_name>>]
        IN  /\ last'.op = "clear_cache" => cache' = EmptyCache
            /\ (last'.op = "set_language" /\ last'.exc = NoExc) =>
                   /\ cache' = EmptyCache
                   /\ language' = last'.agent_name[1]
            /\ last'.op = "reload" =>
                   /\ \A k \in DOMAIN cache \ {key} :
                          k \in DOMAIN cache' /\ cache'[k] = cache[k]
                   /\ DOMAIN cache' \subseteq DOMAIN cache \cup {key}
                   /\ last'.opened = (file # Missing)
                   /\ (key \in DOMAIN cache') = (last'.exc = NoExc)
                   /\ last'.exc = NoExc => cache'[key] = last'.ret
            /\ (last'.op = "load" /\ key \notin DOMAIN cache /\ file # Missing) =>
                   last'.opened
      ]_vars

\* C2 witness: a reload re-read a changed file while another entry stayed cached.
C2_Witness ==
    /\ last.op = "reload" /\ last.exc = NoExc /\ last.opened
    /\ Cardinality(DOMAIN cache) >= 2
    /\ edits > 0

(***************************************************************************)
(* BaseAgent.call_llm and BaseIdeaAgent.call_llm.  A call runs up to its   *)
(* await of openai_complete_if_cache (one step), and from the answer of    *)
(* the completion capability to its return (another step).                 *)
(***************************************************************************)
MaxCalls == 2      \* call_llm invocations in one behaviour

AGENT_NAME == "solve_agent"
NoModel    == ""
NoStage    == ""
NoReport   == [t |-> "none", v |-> <<>>]     \* the sink was not called
\* token_counts given to the sink by the completion capability: the mapping it
\* builds from the usage of the API response, whose counts may all be zero
Counts(p, c) ==
    [t |-> "map", v |-> [prompt_tokens |-> p, completion_tokens |-> c, total_tokens |-> p + c]]
Reports == {Counts(0, 0), Counts(5, 7)}

\* a call that has not started
NoCall ==
    [kind |-> "none", pc |-> "idle", model |-> NoModel, stage |-> NoStage,
     exc |-> NoExc, requests |-> 0, usage |-> NoReport, words |-> 0,
     usage_before |-> 0, log_before |-> 0, stats_before |-> 0, stage_arg |-> NoStage]

\* a get_model that falls back to a default model
get_model_default == [exc |-> NoExc, model |-> "default"]

\* BaseAgent.get_model(): the model of the environment, or ValueError
get_model ==
    IF env_model = NoModel                              \* if not env_model
    THEN [exc |-> "ValueError", model |-> NoModel]
    ELSE [exc |-> NoExc, model |-> env_model]

\* TokenTracker.add_usage(...): one record appended to the history
add_usage(history, stage, model, source, prompt_tokens, completion_tokens) ==
    Append(history, [agent_name |-> AGENT_NAME, stage |-> stage, model |-> model,
                     source |-> source, prompt_tokens |-> prompt_tokens,
                     completion_tokens |-> completion_tokens])

\* Logger.log_llm_input / log_llm_output: one event appended
log_event(events, kind, stage) ==
    Append(events, [kind |-> kind, agent_name |-> AGENT_NAME, stage |-> stage])

\* int(words * 1.3)
Estimate(words) == (words * 13) \div 10

\* a usage that counts as missing when it totals no token
not_usage_zero(usage) == usage = NoReport \/ usage.v = <<>> \/ usage.v.total_tokens = 0

\* not token_tracker_wrapper.usage: None, or an empty mapping
not_usage(usage) == usage = NoReport \/ usage.v = <<>>

\* a failed request that is sent again while get_max_retries() allows it
request_failed_retry(c) ==
    IF c.requests <= max_retries
    THEN [c EXCEPT !.requests = @ + 1]
    ELSE [c EXCEPT !.pc = "raised", !.exc = "APIError"]

\* the await of openai_complete_if_cache raises: nothing catches it in call_llm
request_failed(c) == [c EXCEPT !.pc = "raised", !.exc = "APIError"]

\* a label that is the stage argument as it came
stage_label_raw(stage_arg) == stage_arg

\* stage_label = stage or self.agent_name, line 204
stage_label(stage_arg) == IF stage_arg # NoStage THEN stage_arg ELSE AGENT_NAME

(***************************************************************************)
(* BaseAgent.call_llm, lines 185-239: resolve the model, log the input,    *)
(* wrap the tracker, send the request.                                     *)
(***************************************************************************)
CallLLM(model_arg, stage_arg, words) ==
    /\ call.pc # "awaiting"
    /\ ncalls < MaxCalls
    /\ ncalls' = ncalls + 1
    /\ LET resolved    == IF model_arg # NoModel               \* model or self.get_model()
                          THEN [exc |-> NoExc, model |-> model_arg]
                          ELSE get_model
           label       == stage_label(stage_arg)
           started     == [NoCall EXCEPT !.kind = "base", !.words = words,
                                         !.stage_arg = stage_arg,
                                         !.usage_before = Len(usage_history),
                                         !.log_before = Len(log),
                                         !.stats_before = stats_calls]
       IN  IF resolved.exc # NoExc
           THEN /\ call' = [started EXCEPT !.pc = "raised", !.exc = resolved.exc]
                /\ UNCHANGED log
           ELSE /\ call' = [started EXCEPT !.pc = "awaiting", !.model = resolved.model,
                                           !.stage = label, !.requests = 1]
                /\ log' = log_event(log, "input", label)
    /\ UNCHANGED <<env_model, token_tracker, max_retries, usage_history, stats_calls>>

\* the completion capability answers with a text; report is what it gave the
\* usage sink (when a tracker was passed).  BaseAgent.call_llm, lines 239-277.
CompleteOk(report) ==
    /\ call.kind = "base" /\ call.pc = "awaiting"
    /\ report # NoReport => token_tracker # "none"
    /\ LET usage    == report                                  \* TokenTrackerWrapper.usage
           reported == IF report = NoReport THEN usage_history
                       ELSE add_usage(usage_history, call.stage, call.model, "exact",
                                      report.v.prompt_tokens, report.v.completion_tokens)
       IN  /\ usage_history' =
                 IF token_tracker # "none" /\ not_usage(usage)
                 THEN IF token_tracker = "advanced"
                      THEN add_usage(reported, call.stage, call.model, "texts", 0, 0)
                      ELSE add_usage(reported, call.stage, call.model, "estimated",
                                     Estimate(call.words), Estimate(1))
                 ELSE reported
           /\ call' = [call EXCEPT !.pc = "returned", !.usage = usage]
    /\ log' = log_event(log, "output", call.stage)
    /\ UNCHANGED <<env_model, token_tracker, max_retries, stats_calls, ncalls>>

\* the completion capability fails (network or API error)
CompleteFail ==
    /\ call.kind = "base" /\ call.pc = "awaiting"
    /\ call' = request_failed(call)
    /\ UNCHANGED <<env_model, token_tracker, max_retries, usage_history, stats_calls,
                   log, ncalls>>

(***************************************************************************)
(* BaseIdeaAgent.call_llm: the model was resolved by the constructor.      *)
(***************************************************************************)
IdeaCallLLM ==
    /\ call.pc # "awaiting"
    /\ ncalls < MaxCalls
    /\ ncalls' = ncalls + 1
    /\ call' = [NoCall EXCEPT !.kind = "idea", !.pc = "awaiting", !.model = "m",
                              !.requests = 1,
                              !.usage_before = Len(usage_history),
                              !.log_before = Len(log),
                              !.stats_before = stats_calls]
    /\ UNCHANGED <<env_model, token_tracker, max_retries, usage_history, stats_calls, log>>

IdeaCompleteOk ==
    /\ call.kind = "idea" /\ call.pc = "awaiting"
    /\ stats_calls' = stats_calls + 1                          \* stats.add_call(...)
    /\ call' = [call EXCEPT !.pc = "returned"]
    /\ UNCHANGED <<env_model, token_tracker, max_retries, usage_history, log, ncalls>>

IdeaCompleteFail ==
    /\ call.kind = "idea" /\ call.pc = "awaiting"
    /\ call' = request_failed(call)
    /\ UNCHANGED <<env_model, token_tracker, max_retries, usage_history, stats_calls,
                   log, ncalls>>

AgentInit ==
    /\ env_model \in {NoModel, "m"}
    /\ token_tracker \in {"none", "basic", "advanced"}
    /\ max_retries \in {0, 3}
    /\ usage_history = <<>>
    /\ stats_calls = 0
    /\ log = <<>>
    /\ call = NoCall
    /\ ncalls = 0

Finished == call.pc \in {"returned", "raised"}
Added    == SubSeq(usage_history, call.usage_before + 1, Len(usage_history))
Logged   == SubSeq(log, call.log_before + 1, Len(log))

\* C6 as stated: every invocation of call_llm, of either agent, has made exactly
\* one request to the completion capability when it ends.
C6_ExactlyOneRequest == Finished => call.requests = 1

\* C6: every invocation of call_llm makes at most one request to the completion
\* capability, whatever get_max_retries returns: exactly one once the model is
\* resolved (always, for BaseIdeaAgent), none when BaseAgent.get_model raises;
\* a failure of the request ends the call with that failure.
C6_AtMostOneRequest ==
    /\ call.requests <= 1
    /\ call.pc \in {"awaiting", "returned"} => call.requests = 1
    /\ call.pc = "raised" =>
           \/ call.exc = "APIError" /\ call.requests = 1
           \/ call.exc = "ValueError" /\ call.requests = 0 /\ call.kind = "base"
    /\ (call.kind = "idea" /\ call.pc # "idle") => call.requests = 1

C6_Witness ==
    /\ call.pc = "raised" /\ call.exc = "APIError" /\ call.requests = 1
    /\ max_retries = 3 /\ ncalls = 2

\* C7: a BaseAgent.call_llm that returns with a tracker injected has added
\* exactly one usage record: the reported counts when the capability reported
\* through the sink (zero counts included), an estimated one otherwise; without
\* a tracker, or when the call fails, it has added none.
C7_OneUsageRecord ==
    call.kind = "base" =>
        /\ (call.pc = "returned" /\ token_tracker # "none") =>
               /\ Len(Added) = 1
               /\ Added[1].stage = call.stage /\ Added[1].model = call.model
               /\ IF call.usage # NoReport
                  THEN /\ Added[1].source = "exact"
                       /\ Added[1].prompt_tokens = call.usage.v.prompt_tokens
                       /\ Added[1].completion_tokens = call.usage.v.completion_tokens
                  ELSE Added[1].source \in {"estimated", "texts"}
        /\ (call.pc = "returned" /\ token_tracker = "none") => Added = <<>>
        /\ call.pc \in {"awaiting", "raised"} => Added = <<>>

C7_Witness ==
    /\ call.kind = "base" /\ call.pc = "returned" /\ token_tracker = "basic"
    /\ call.usage = Counts(0, 0) /\ Len(Added) = 1 /\ call.usage_before = 1

\* C8 as stated: with LLM_MODEL unset or empty every BaseAgent.call_llm fails
\* with ValueError, no request made, no event logged, no usage record added.
C8_EveryCallFails ==
    (env_model = NoModel /\ call.kind = "base") =>
        /\ call.pc = "raised" /\ call.exc = "ValueError"
        /\ call.requests = 0 /\ Logged = <<>> /\ Added = <<>>

\* C8: with LLM_MODEL unset or empty every BaseAgent.call_llm that is given no
\* model argument fails with ValueError before any request, log event or usage
\* record; one that is given a model runs with that model.
C8_FailsWithoutModel ==
    (env_model = NoModel /\ call.kind = "base") =>
        \/ /\ call.pc = "raised" /\ call.exc = "ValueError" /\ call.model = NoModel
           /\ call.requests = 0 /\ Logged = <<>> /\ Added = <<>>
        \/ /\ call.model = "m2" /\ call.requests = 1 /\ call.exc # "ValueError"

C8_Witness ==
    /\ env_model = NoModel /\ call.kind = "base" /\ call.pc = "raised"
    /\ call.exc = "ValueError" /\ token_tracker = "basic" /\ ncalls = 2
    /\ Len(log) = 2 /\ Len(usage_history) = 1

(***************************************************************************)
(* The coordination run: PROPOSE -> EXTRACT -> VALIDATE ->                 *)
(* {ACCEPT, REVISE, REJECT}, REVISE going back to PROPOSE with the         *)
(* feedback until the iteration bound (EXHAUSTED) or a cancellation.       *)
(***************************************************************************)
MaxIter  == 3      \* largest configured max_iterations
MaxScore == 2      \* validator scores are 0..MaxScore
GenCap   == MaxIter + 3   \* no behaviour is followed beyond this many generation calls

Verdicts      == {"accept", "revise", "reject"}
TerminalStates == {"ACCEPT", "REJECT", "EXHAUSTED", "CANCELLED"}
NoScore   == -1
NoAction  == [iteration |-> 0, context |-> 0]
NoResult  == [status |-> "none", payload |-> NoAction, iterations |-> 0]
Fallback  == [iteration |-> 0, context |-> -1]    \* the synthetic, schema-valid payload

\* the Observation of one iteration, with the Action it judges
Pair(action, verdict, score, synthetic) ==
    [action |-> action, verdict |-> verdict, score |-> score, synthetic |-> synthetic]

\* a verdict table in which reject is answered by another revision
next_state_lenient(verdict) ==
    CASE verdict = "accept" -> "ACCEPT"
      [] verdict = "reject" -> "REVISE"
      [] verdict = "revise" -> "REVISE"

\* the Observation's verdict drives the next state
next_state(verdict) ==
    CASE verdict = "accept" -> "ACCEPT"
      [] verdict = "reject" -> "REJECT"
      [] verdict = "revise" -> "REVISE"

\* a revision loop that does not look at the cancellation signal
after_revise_deaf(iterations, bound, cancelled) ==
    IF iterations >= bound THEN "EXHAUSTED" ELSE "PROPOSE"

\* a revision loop without the iteration bound
after_revise_unbounded(iterations, bound, cancelled) ==
    IF cancelled THEN "CANCELLED" ELSE "PROPOSE"

\* what follows REVISE: the cancellation observed between two iterations, the
\* iteration bound, or the next proposal
after_revise(iterations, bound, cancelled) ==
    IF cancelled THEN "CANCELLED"
    ELSE IF iterations >= bound THEN "EXHAUSTED"
    ELSE "PROPOSE"

\* the best-scoring Action with the earliest one winning a tie
Best_earliest(history) ==
    LET scored == {i \in 1..Len(history) : ~history[i].synthetic} IN
    IF scored = {} THEN Fallback
    ELSE history[CHOOSE i \in scored :
                    \A j \in scored : \/ history[j].score < history[i].score
                                      \/ history[j].score = history[i].score /\ j >= i].action

\* the best-scoring Action of the history, the most recent one on a tie; the
\* synthetic payload when no Action was scored
Best(history) ==
    LET scored == {i \in 1..Len(history) : ~history[i].synthetic} IN
    IF scored = {} THEN Fallback
    ELSE history[CHOOSE i \in scored :
                    \A j \in scored : \/ history[j].score < history[i].score
                                      \/ history[j].score = history[i].score /\ j <= i].action

CoordInit ==
    /\ max_iterations \in 1..MaxIter
    /\ cancel = FALSE
    /\ run = [state |-> "PROPOSE", iterations |-> 0, gen_calls |-> 0, val_calls |-> 0,
              feedback |-> <<>>, action |-> NoAction, history |-> <<>>,
              result |-> NoResult]

\* PROPOSE: the generation agent is called with the messages so far
Propose ==
    /\ run.state = "PROPOSE"
    /\ run.gen_calls < GenCap
    /\ run' = [run EXCEPT !.state = "EXTRACT",
                          !.iterations = @ + 1,
                          !.gen_calls = @ + 1,
                          !.action = [iteration |-> run.iterations + 1,
                                      context |-> Len(run.feedback)]]
    /\ UNCHANGED <<max_iterations, cancel>>

\* EXTRACT: a failed extraction is an implicit REVISE with synthetic feedback
ExtractAction(ok) ==
    /\ run.state = "EXTRACT"
    /\ run' = IF ok
              THEN [run EXCEPT !.state = "VALIDATE"]
              ELSE [run EXCEPT !.state = "REVISE",
                               !.feedback = Append(@, "malformed"),
                               !.history = Append(@, Pair(run.action, "revise", NoScore, TRUE))]
    /\ UNCHANGED <<max_iterations, cancel>>

\* VALIDATE: the validation agent judges the Action
Validate(verdict, score) ==
    /\ run.state = "VALIDATE"
    /\ LET state   == next_state(verdict)
           history == Append(run.history, Pair(run.action, verdict, score, FALSE))
       IN  run' = [run EXCEPT
                     !.state = state,
                     !.val_calls = @ + 1,
                     !.history = history,
                     !.feedback = IF state = "REVISE" THEN Append(@, verdict) ELSE @,
                     !.result = CASE state = "ACCEPT" ->
                                       [status |-> "accepted", payload |-> run.action,
                                        iterations |-> run.iterations]
                                  [] state = "REJECT" ->
                                       [status |-> "rejected", payload |-> Fallback,
                                        iterations |-> run.iterations]
                                  [] OTHER -> @]
    /\ UNCHANGED <<max_iterations, cancel>>

\* REVISE: between two iterations
Revise ==
    /\ run.state = "REVISE"
    /\ LET state == after_revise(run.iterations, max_iterations, cancel)
       IN  run' = [run EXCEPT
                     !.state = state,
                     !.result = CASE state = "EXHAUSTED" ->
                                       [status |-> "exhausted", payload |-> Best(run.history),
                                        iterations |-> run.iterations]
                                  [] state = "CANCELLED" ->
                                       [status |-> "cancelled", payload |-> NoAction,
                                        iterations |-> 0]
                                  [] OTHER -> @]
    /\ UNCHANGED <<max_iterations, cancel>>

\* the task is cancelled from outside while the run is under way
Cancel ==
    /\ run.state \notin TerminalStates
    /\ ~cancel
    /\ cancel' = TRUE
    /\ UNCHANGED <<max_iterations, run>>

RunStep ==
    \/ Propose
    \/ \E ok \in BOOLEAN : ExtractAction(ok)
    \/ \E v \in Verdicts, sc \in 0..MaxScore : Validate(v, sc)
    \/ Revise

(***************************************************************************)
(* Properties of the coordination run.                                     *)
(***************************************************************************)
Terminal == run.state \in TerminalStates
LastPair(r) == r.history[Len(r.history)]

\* C9: a coordination run always terminates, whatever the validator answers
\* (revise every time included) and whatever the extraction gives: it never
\* makes more than max_iterations + 1 calls to the generation agent and it
\* reaches a terminal state.
C9_Terminates ==
    /\ [](run.gen_calls <= max_iterations + 1)
    /\ <>Terminal

C9_Witness ==
    /\ run.state = "EXHAUSTED" /\ max_iterations = MaxIter
    /\ run.gen_calls = max_iterations
    /\ \A i \in 1..Len(run.history) : run.history[i].verdict = "revise"
    /\ \E i \in 1..Len(run.history) : run.history[i].synthetic
    /\ \E i \in 1..Len(run.history) : ~run.history[i].synthetic

\* C10: the verdict of the validator alone gives the next state: accept ends the
\* run in ACCEPT, reject in REJECT, revise leads to REVISE and from there back to
\* PROPOSE with the feedback added to the context; an accept on the first
\* Observation gives status accepted with iterations = 1; nothing follows
\* ACCEPT or REJECT.
C10_VerdictDrives ==
    [][ /\ (run.state = "VALIDATE" /\ run' # run) =>
              /\ run'.val_calls = run.val_calls + 1
              /\ run'.gen_calls = run.gen_calls
              /\ LastPair(run').verdict = "accept" =>
                     run'.state = "ACCEPT" /\ run'.result.status = "accepted"
              /\ LastPair(run').verdict = "reject" =>
                     run'.state = "REJECT" /\ run'.result.status = "rejected"
              /\ LastPair(run').verdict = "revise" =>
                     /\ run'.state = "REVISE" /\ run'.result = NoResult
                     /\ run'.feedback = Append(run.feedback, "revise")
        /\ (run.state = "REVISE" /\ run'.state = "PROPOSE") =>
              run'.feedback = run.feedback
        /\ (run.state = "PROPOSE" /\ run' # run) =>
              run'.action.context = Len(run.feedback)
        /\ (Len(run'.history) = 1 /\ ~run'.history[1].synthetic
                /\ run'.history[1].verdict = "accept") =>
              /\ run'.state = "ACCEPT"
              /\ run'.result.status = "accepted" /\ run'.result.iterations = 1
        /\ run.state \in {"ACCEPT", "REJECT"} => run' = run
      ]_vars

C10_Witness ==
    /\ run.state = "ACCEPT" /\ run.result.status = "accepted"
    /\ run.result.iterations = 1 /\ Len(run.history) = 1 /\ run.val_calls = 1
    /\ max_iterations = MaxIter

Scored(r) == {i \in 1..Len(r.history) : ~r.history[i].synthetic}

\* C11: a run that reaches its iteration bound without ACCEPT or REJECT (and
\* without a cancellation) ends in EXHAUSTED, and the payload of its result is
\* the Action with the highest validator score of the run, the most recent of
\* the Actions with that score.
C11_ExhaustedBest ==
    [][ /\ (run.state = "REVISE" /\ run.iterations >= max_iterations /\ ~cancel
                /\ run' # run) =>
              run'.state = "EXHAUSTED"
        /\ run'.state = "EXHAUSTED" =>
              /\ run'.result.status = "exhausted"
              /\ run'.result.iterations = max_iterations
              /\ Scored(run') # {} =>
                     \E i \in Scored(run') :
                         /\ run'.result.payload = run'.history[i].action
                         /\ \A j \in Scored(run') :
                               /\ run'.history[j].score <= run'.history[i].score
                               /\ run'.history[j].score = run'.history[i].score => j <= i
      ]_vars

C11_Witness ==
    /\ run.state = "EXHAUSTED" /\ Len(run.history) = 3 /\ Scored(run) = {1, 2, 3}
    /\ run.history[1].score = run.history[2].score
    /\ run.history[3].score < run.history[2].score
    /\ run.result.payload = run.history[2].action

\* C12: once the cancellation signal is observed between two iterations the
\* run calls neither agent again and ends with the cancellation outcome, which
\* is no AgentResult (neither accepted, rejected nor exhausted, no payload).
C12_Cancellation ==
    [][ /\ (run.state = "REVISE" /\ cancel /\ run' # run) =>
              /\ run'.state = "CANCELLED"
              /\ run'.gen_calls = run.gen_calls /\ run'.val_calls = run.val_calls
        /\ run'.state = "CANCELLED" =>
              /\ run'.result.status = "cancelled"
              /\ run'.result.payload = NoAction
        /\ run.state = "CANCELLED" => run' = run
      ]_vars

C12_Witness ==
    /\ run.state = "CANCELLED" /\ run.result.status = "cancelled"
    /\ run.iterations < max_iterations /\ run.gen_calls = 2 /\ run.val_calls = 1

(***************************************************************************)
(* MaterialOrganizerAgent.process and _fallback_extract.  The answers of   *)
(* the completion capability are texts, read with json.loads; the keys     *)
(* knowledge_points, knowledge_point and description are one character     *)
(* each.                                                                   *)
(***************************************************************************)
MaxRecords == 2    \* the longest records list
MaxPoints  == 2    \* the longest knowledge_points list built from the core entries
MinDescLen == 10   \* len(desc) >= 10

KPS  == <<"knowledge_points">>
KP   == <<"knowledge_point">>
DESC == <<"description">>

\* a validated point, as process returns it
Point(kp, desc) == [knowledge_point |-> kp, description |-> desc]

\* str(value) for the values a field holds: a string, a number or None
PyStr(val) ==
    CASE val.t = "str"  -> val.v
      [] val.t = "num"  -> val.v
      [] val.t = "null" -> <<"N", "o", "n", "e">>

\* whether the sequence part occurs in the sequence whole (str.__contains__)
Contains(whole, part) ==
    \E i \in 1..(Len(whole) - Len(part) + 1) :
        SubSeq(whole, i, i + Len(part) - 1) = part

\* key in point: a key of a dict, a substring of a str, an element of a list;
\* TypeError for a number or None
KeyIn(key, point) ==
    CASE point.t = "obj" -> [exc |-> NoExc, val |-> key \in DOMAIN point.v]
      [] point.t = "str" -> [exc |-> NoExc, val |-> Contains(point.v, key)]
      [] point.t = "arr" -> [exc |-> NoExc,
                             val |-> \E i \in 1..Len(point.v) : point.v[i] = JStr(key)]
      [] OTHER           -> [exc |-> "TypeError", val |-> FALSE]

\* the body of the loop over knowledge_points for one point: the exception it
\* raises, and the validated point it appends (<<>> when it appends none)
check_point(point, floor) ==
    LET hasKp   == KeyIn(KP, point)
        hasDesc == KeyIn(DESC, point)
    IN  IF hasKp.exc # NoExc THEN [exc |-> hasKp.exc, points |-> <<>>]
        ELSE IF ~hasKp.val THEN [exc |-> NoExc, points |-> <<>>]
        ELSE IF ~hasDesc.val THEN [exc |-> NoExc, points |-> <<>>]
        ELSE IF point.t # "obj" THEN [exc |-> "TypeError", points |-> <<>>]  \* point["..."]
        ELSE LET kp   == Strip(PyStr(point.v[KP]))
                 desc == Strip(PyStr(point.v[DESC]))
             IN  IF kp # <<>> /\ desc # <<>> /\ Len(desc) >= floor
                 THEN [exc |-> NoExc, points |-> <<Point(kp, desc)>>]
                 ELSE [exc |-> NoExc, points |-> <<>>]

\* for point in knowledge_points: ... validated_points.append(...)
RECURSIVE check_points(_, _, _)
check_points(items, floor, acc) ==
    IF items = <<>> THEN [exc |-> NoExc, points |-> acc]
    ELSE LET r == check_point(Head(items), floor)
         IN  IF r.exc # NoExc THEN [exc |-> r.exc, points |-> <<>>]
             ELSE check_points(Tail(items), floor, acc \o r.points)

\* what a for loop goes through: the items of a list, the characters of a
\* str, the keys of a dict
Iterate(val) ==
    CASE val.t = "arr" -> val.v
      [] val.t = "str" -> [i \in 1..Len(val.v) |-> JStr(<<val.v[i]>>)]
      [] val.t = "obj" -> [i \in 1..Cardinality(DOMAIN val.v) |->
                              JStr(SetToSeq(DOMAIN val.v)[i])]

\* result.get("knowledge_points", []) and the loop over it with the given floor
\* on the length of the description
validated_points(parsed, floor) ==
    IF parsed.t # "obj" THEN [exc |-> "AttributeError", points |-> <<>>]   \* result.get
    ELSE LET knowledge_points == IF KPS \in DOMAIN parsed.v THEN parsed.v[KPS] ELSE JArr(<<>>)
         IN  IF knowledge_points.t \in {"arr", "str", "obj"}
             THEN check_points(Iterate(knowledge_points), floor, <<>>)
             ELSE [exc |-> "TypeError", points |-> <<>>]       \* len(...) / iteration

\* the two generic knowledge points of _fallback_extract (lines 154-159 and
\* 162-167); the first word of each description is spelled out, the rest of
\* the sentence is one character before and one after the number of records
GenericPoint(n) ==
    Point(<<"Comprehensive Knowledge Point">>,
          <<"C", "o", "m", "p", "r", "e", "h", "e", "n", "s", "i", "v", "e",
            " knowledge content based on ", ToString(n),
            " records, containing multiple research directions and concepts.">>)
GenericTopic(n) ==
    Point(<<"Comprehensive Research Topic">>,
          <<"B", "a", "s", "e", "d", WS, "o", "n", WS, "t", "h", "e",
            " selected ", ToString(n),
            " notebook records, multiple research directions and knowledge points can be explored.">>)

\* what the completion capability gave: a text, or a failure of the call
Answered(txt) == [ok |-> TRUE, text |-> txt]
CallFailed    == [ok |-> FALSE, text |-> <<>>]
NoAnswer      == [ok |-> FALSE, text |-> <<"none">>]

Returns(points) == [kind |-> "return", ret |-> points, exc |-> NoExc]
Raises(exc)     == [kind |-> "raise", ret |-> <<>>, exc |-> exc]
ToFallback      == [kind |-> "fallback", ret |-> <<>>, exc |-> NoExc]

\* a fallback that returns whatever it validated
_fallback_extract_bare(n, answer) ==
    IF ~answer.ok THEN <<GenericTopic(n)>>
    ELSE LET r == json_loads(answer.text)
         IN  IF ~r.ok THEN <<GenericTopic(n)>>
             ELSE LET v == validated_points(r.val, 0)
                  IN  IF v.exc # NoExc THEN <<GenericTopic(n)>> ELSE v.points

\* _fallback_extract after its prompt is built (lines 134-167): n is
\* len(records), answer the outcome of its call_llm
_fallback_extract(n, answer) ==
    IF ~answer.ok THEN <<GenericTopic(n)>>                     \* except Exception
    ELSE LET r == json_loads(answer.text)
         IN  IF ~r.ok THEN <<GenericTopic(n)>>                 \* except Exception
             ELSE LET v == validated_points(r.val, 0)          \* if kp and desc
                  IN  IF v.exc # NoExc THEN <<GenericTopic(n)>>
                      ELSE IF v.points # <<>> THEN v.points
                      ELSE <<GenericPoint(n)>>

\* a primary path without the floor on the length of the description
process_response_nofloor(n, response) ==
    LET r == json_loads(response)
    IN  IF ~r.ok THEN ToFallback
        ELSE LET v == validated_points(r.val, 0)
             IN  IF v.exc # NoExc THEN Raises(v.exc)
                 ELSE IF v.points = <<>> /\ n > 0 THEN ToFallback
                 ELSE Returns(v.points)

\* process from the answer of its call_llm (lines 93-114): return, raise, or
\* go on with _fallback_extract
process_response(n, response) ==
    LET r == json_loads(response)
    IN  IF ~r.ok THEN ToFallback                               \* except json.JSONDecodeError
        ELSE LET v == validated_points(r.val, MinDescLen)
             IN  IF v.exc # NoExc THEN Raises(v.exc)           \* no handler for it
                 ELSE IF v.points = <<>> /\ n > 0 THEN ToFallback   \* not validated_points and records
                 ELSE Returns(v.points)

(***************************************************************************)
(* The answers of the completion capability that process is run on.        *)
(***************************************************************************)
Chars(c, n) == [i \in 1..n |-> c]
Quoted(cs)  == <<QT>> \o cs \o <<QT>>
Member(key, valueText) == Quoted(key) \o <<":", WS>> \o valueText
PointText(kpText, descText) ==
    <<"{">> \o Member(KP, kpText) \o <<",", WS>> \o Member(DESC, descText) \o <<"}">>

GoodEntry   == PointText(Quoted(<<"K">>), Quoted(Chars("d", MinDescLen)))
ShortEntry  == PointText(Quoted(<<"S">>), Quoted(Chars("d", MinDescLen - 1)))
NoDescEntry == <<"{">> \o Member(KP, Quoted(<<"K">>)) \o <<"}">>
CoreEntries == {GoodEntry, ShortEntry, NoDescEntry}

PaddedEntry  == PointText(Quoted(<<WS, "P", WS>>),
                          Quoted(<<WS>> \o Chars("d", MinDescLen) \o <<WS>>))
PaddedShort  == PointText(Quoted(<<"P">>),
                          Quoted(<<WS>> \o Chars("d", MinDescLen - 1) \o <<WS>>))
BlankEntry   == PointText(Quoted(<<"K">>), Quoted(<<WS>>))
BlankKpEntry == PointText(Quoted(<<WS>>), Quoted(Chars("d", MinDescLen)))
NullKpEntry  == PointText(<<"null">>, Quoted(Chars("d", MinDescLen)))
NumDescEntry == PointText(Quoted(<<"K">>), Chars("1", MinDescLen))
NumberEntry  == <<"1">>
StringEntry  == Quoted(<<"a">>)
EmptyObjEntry == <<"{", "}">>

RECURSIVE ListText(_)
ListText(entries) ==
    IF entries = <<>> THEN <<>>
    ELSE Head(entries) \o (IF Len(entries) > 1 THEN <<",", WS>> ELSE <<>>)
           \o ListText(Tail(entries))

EntryLists ==
    SeqsUpTo(CoreEntries, MaxPoints)
      \cup { <<e>> : e \in {PaddedEntry, PaddedShort, BlankEntry, BlankKpEntry, NullKpEntry,
                            NumDescEntry, NumberEntry, StringEntry, EmptyObjEntry} }
      \cup { <<GoodEntry, NumberEntry>>, <<StringEntry, GoodEntry>>,
             <<PaddedEntry, BlankEntry>> }

WithPoints(valueText) == <<"{">> \o Member(KPS, valueText) \o <<"}">>

Responses ==
    { WithPoints(<<"[">> \o ListText(l) \o <<"]">>) : l \in EntryLists }
      \cup { WithPoints(<<"1">>), WithPoints(<<"null">>), WithPoints(Quoted(<<"a">>)),
             WithPoints(GoodEntry),
             <<"{", "}">>, <<"[", "]">>, <<"null">>, <<"1">>,
             <<>>, <<"a">>, <<"{">>,
             <<FENCE, TAG, WS>> \o WithPoints(<<"[">> \o GoodEntry \o <<"]">>) \o <<WS, FENCE>> }

(***************************************************************************)
(* One call of MaterialOrganizerAgent.process.                             *)
(***************************************************************************)
NotStarted ==
    [pc |-> "idle", calls |-> 0, primary |-> NoAnswer, fallback |-> NoAnswer,
     ret |-> <<>>, exc |-> NoExc]

OrganizerInit ==
    /\ records \in 0..MaxRecords
    /\ mo = NotStarted

\* process, lines 53-85: the prompt is built and call_llm is awaited
Process ==
    /\ mo.pc = "idle"
    /\ mo' = [mo EXCEPT !.pc = "primary", !.calls = 1]
    /\ UNCHANGED records

\* the first call_llm returns a text: lines 91-114, up to the await in
\* _fallback_extract when the fallback is taken
PrimaryAnswer(response) ==
    /\ mo.pc = "primary"
    /\ LET out == process_response(records, response)
       IN  mo' = CASE out.kind = "return" ->
                        [mo EXCEPT !.pc = "returned", !.primary = Answered(response),
                                   !.ret = out.ret]
                   [] out.kind = "raise" ->
                        [mo EXCEPT !.pc = "raised", !.primary = Answered(response),
                                   !.exc = out.exc]
                   [] out.kind = "fallback" ->
                        [mo EXCEPT !.pc = "fallback", !.primary = Answered(response),
                                   !.calls = @ + 1]
    /\ UNCHANGED records

\* the first call_llm raises: process has no handler around it
PrimaryFail ==
    /\ mo.pc = "primary"
    /\ mo' = [mo EXCEPT !.pc = "raised", !.primary = CallFailed, !.exc = "APIError"]
    /\ UNCHANGED records

\* the call_llm of _fallback_extract returns a text
FallbackAnswer(response) ==
    /\ mo.pc = "fallback"
    /\ mo' = [mo EXCEPT !.pc = "returned", !.fallback = Answered(response),
                        !.ret = _fallback_extract(records, Answered(response))]
    /\ UNCHANGED records

\* the call_llm of _fallback_extract raises
FallbackFail ==
    /\ mo.pc = "fallback"
    /\ mo' = [mo EXCEPT !.pc = "returned", !.fallback = CallFailed,
                        !.ret = _fallback_extract(records, CallFailed)]
    /\ UNCHANGED records

(***************************************************************************)
(* Properties of MaterialOrganizerAgent.process.                           *)
(***************************************************************************)
PrimaryParsed  == json_loads(mo.primary.text)
FallbackParsed == json_loads(mo.fallback.text)

\* the validated knowledge points the primary answer yields (none when it is
\* not parsable)
PrimaryYield ==
    IF mo.primary.ok /\ PrimaryParsed.ok
    THEN validated_points(PrimaryParsed.val, MinDescLen).points ELSE <<>>

\* the points with non-empty fields the fallback answer yields (none when the
\* call, the parse or the reading of the answer fails)
FallbackYield ==
    IF mo.fallback.ok /\ FallbackParsed.ok
    THEN validated_points(FallbackParsed.val, 0).points ELSE <<>>

Generic(n) == {GenericPoint(n), GenericTopic(n)}

\* C13: for a non-empty records list, a process that returns has returned a
\* non-empty list after at most two completion calls; the second call (the
\* fallback) is made exactly when the primary answer is not parsable or yields
\* no validated point; the fallback's points are returned when it yields some,
\* and one generic point otherwise.
C13_NonEmptyResult ==
    (mo.pc = "returned" /\ records > 0) =>
        /\ mo.ret # <<>>
        /\ mo.calls \in {1, 2}
        /\ (mo.calls = 2) = (PrimaryYield = <<>>)
        /\ mo.calls = 1 => mo.ret = PrimaryYield
        /\ mo.calls = 2 =>
              IF FallbackYield # <<>> THEN mo.ret = FallbackYield
              ELSE Len(mo.ret) = 1 /\ mo.ret[1] \in Generic(records)

C13_Witness ==
    /\ mo.pc = "returned" /\ records = MaxRecords /\ mo.calls = 2
    /\ mo.primary.ok /\ PrimaryParsed.ok
    /\ mo.fallback.ok /\ FallbackParsed.ok /\ FallbackYield = <<>>
    /\ mo.ret = <<GenericPoint(records)>>

\* C14 as stated: process never raises, whether the primary call fails, its
\* answer is JSON but no object, or knowledge_points is no list of objects.
C14_NeverRaises == mo.pc # "raised"

\* the entries of a list that are objects with both keys, a non-empty trimmed
\* knowledge_point and a trimmed description of at least MinDescLen
\* characters, each reduced to the two trimmed fields
RECURSIVE Kept(_)
Kept(entries) ==
    IF entries = <<>> THEN <<>>
    ELSE LET e == Head(entries)
             keep == /\ e.t = "obj" /\ KP \in DOMAIN e.v /\ DESC \in DOMAIN e.v
                     /\ Strip(PyStr(e.v[KP])) # <<>>
                     /\ Len(Strip(PyStr(e.v[DESC]))) >= MinDescLen
         IN  (IF keep THEN <<Point(Strip(PyStr(e.v[KP])), Strip(PyStr(e.v[DESC])))>>
              ELSE <<>>) \o Kept(Tail(entries))

\* C15 as stated: when the primary answer parses as a JSON object whose
\* knowledge_points is a list, and the kept entries are not empty (or records
\* is empty), process returns exactly the kept entries, in their order, and
\* makes no second completion call.
C15_PrimaryEntries ==
    (/\ mo.pc \in {"returned", "raised", "fallback"}
     /\ mo.primary.ok /\ PrimaryParsed.ok /\ PrimaryParsed.val.t = "obj"
     /\ KPS \in DOMAIN PrimaryParsed.val.v
     /\ PrimaryParsed.val.v[KPS].t = "arr") =>
        LET kept == Kept(PrimaryParsed.val.v[KPS].v)
        IN  (kept # <<>> \/ records = 0) =>
               mo.pc = "returned" /\ mo.ret = kept /\ mo.calls = 1

\* C16 as stated: every item of every returned list has a non-empty
\* knowledge_point and a description of at least 10 characters.
C16_AllDescriptionsLong ==
    mo.pc = "returned" =>
        \A i \in 1..Len(mo.ret) :
            /\ mo.ret[i].knowledge_point # <<>>
            /\ Len(mo.ret[i].description) >= MinDescLen

\* C16: every item of every returned list has a non-empty trimmed
\* knowledge_point and a non-empty trimmed description; the description has at
\* least 10 characters when the item comes from the primary path or is a
\* generic point (the fallback path takes any non-empty description).
C16_PointFields ==
    mo.pc = "returned" =>
        \A i \in 1..Len(mo.ret) :
            LET item == mo.ret[i] IN
            /\ item.knowledge_point # <<>> /\ Strip(item.knowledge_point) = item.knowledge_point
            /\ item.description # <<>> /\ Strip(item.description) = item.description
            /\ (mo.calls = 1 \/ item \in Generic(records)) =>
                   Len(item.description) >= MinDescLen

C16_Witness ==
    /\ mo.pc = "returned" /\ mo.calls = 2 /\ Len(mo.ret) = 2
    /\ Len(mo.ret[1].description) >= MinDescLen
    /\ Len(mo.ret[2].description) = MinDescLen - 1

(***************************************************************************)
(* Template files of every shape (C17, C20): what yaml.safe_load gives for *)
(* the file of agent "a" in the "zh" directory.                            *)
(***************************************************************************)
S(x) == YStr(<<x>>)
Blank == YStr(<<>>)

\* the system object of a structured template
SystemSections ==
    {[role |-> S("R"), task |-> S("T")],
     [role |-> S("R")],
     [task |-> S("T")],
     [role |-> S("R"), task |-> YNull],
     [role |-> S("R"), task |-> S("T"), requirements |-> YMap([k |-> S("v")])],
     [role |-> S("R"), task |-> S("T"), output_format |-> S("F")],
     [role |-> S("R"), task |-> S("T"), notes |-> YNum(3)]}

\* the user section of a structured template
UserSections ==
    {YMap([template |-> S("U")]), YMap([template |-> Blank]),
     YMap([template |-> YNum(5)]), YMap([other |-> S("x")]),
     YNull, S("x"), YList(<<S("template")>>), YList(<<S("x")>>)}

StructFiles ==
    {YMap([system |-> YMap(s), user |-> u]) : s \in SystemSections, u \in UserSections}
        \cup {YMap([system |-> YMap(s)]) : s \in SystemSections}
        \cup {YMap([system |-> YMap([role |-> S("R"), task |-> S("T")]),
                    user |-> YMap([template |-> S("U")]), extra |-> S("E")])}

RawFiles ==
    {YMap([system |-> S("S"), user_template |-> S("U")]),
     YMap([system |-> S("S"), user_template |-> S("U"), output_format |-> S("F")]),
     YMap([system |-> S("S"), user_template |-> S("U"), extra |-> S("E")]),
     YMap([system |-> Blank, user_template |-> Blank]),
     YMap([system |-> S("S"), user_template |-> Blank]),
     YMap([system |-> Blank, user_template |-> S("U")]),
     YMap([system |-> S("S")]),
     YMap([system |-> S("S"), user_template |-> YNum(5)]),
     YMap([system |-> S("S"), user_template |-> YNull]),
     YMap([system |-> YNull, user_template |-> S("U")]),
     YMap([system |-> YList(<<S("x")>>), user_template |-> S("U")]),
     YMap([system |-> YNum(1), user_template |-> S("U")]),
     YMap([user_template |-> S("U")]),
     YMap([user |-> YMap([template |-> S("U")])])}

\* an empty file, a number, a string or a list
NonMappings ==
    {YNull, YNum(7), S("x"), S("system"), YList(<<S("x")>>), YList(<<S("system")>>)}

\* structured templates with every combination of optional sections, each
\* absent, present but empty, or filled
SectionNames == {"requirements", "constraints", "output_format", "notes"}
SectionChoices == [SectionNames -> {"absent", "empty", "filled"}]
EmptySection(name) == IF name = "output_format" THEN Blank ELSE YList(<<>>)
FilledSection(name) ==
    CASE name = "requirements"  -> YList(<<S("q1"), S("q2")>>)
      [] name = "constraints"   -> YList(<<S("c1")>>)
      [] name = "output_format" -> S("F")
      [] name = "notes"         -> YList(<<S("n1"), YNum(2)>>)
SectionedSystem(choice) ==
    [k \in {"role", "task"} \cup {n \in SectionNames : choice[n] # "absent"} |->
        CASE k = "role" -> S("R")
          [] k = "task" -> S("T")
          [] OTHER      -> IF choice[k] = "empty" THEN EmptySection(k)
                                                  ELSE FilledSection(k)]
SectionedFiles ==
    {YMap([system |-> YMap(SectionedSystem(choice)), user |-> YMap([template |-> S("U")])]) :
        choice \in SectionChoices}

TemplateFiles ==
    StructFiles \cup SectionedFiles \cup RawFiles \cup NonMappings \cup {Unparsable, Missing}

TemplateSlot == <<"zh", <<"a">>>>

TemplatesInit ==
    /\ language \in Langs
    /\ cache = EmptyCache
    /\ \E content \in TemplateFiles : files = [InitialFiles EXCEPT ![TemplateSlot] = content]
    /\ last = Call("init", <<>>, <<>>, NoExc, NoPrompts, FALSE)
    /\ edits = 0
    /\ loaded = NoneLoaded
    /\ reads = NoReads

(***************************************************************************)
(* Properties of PromptLoader over every template shape.                   *)
(***************************************************************************)
\* the step is a load of last'.agent_name that found nothing in the cache
LoadMiss ==
    /\ last'.op = "load"
    /\ CacheKey(last'.agent_name, last'.version, language) \notin DOMAIN cache

LoadedFile == files[<<language, last'.agent_name>>]

HasTemplate(user) == user.t = "map" /\ "template" \in DOMAIN user.v

\* a template file that lacks a field required for its shape
Defective(c) ==
    \/ c.t \in {"null", "num", "str", "list"}
    \/ /\ c.t = "map"
       /\ \/ "system" \notin DOMAIN c.v
          \/ LET system_section == c.v["system"]
             IN  \/ /\ system_section.t = "map"
                    /\ \/ "user" \notin DOMAIN c.v
                       \/ "role" \notin DOMAIN system_section.v
                       \/ "task" \notin DOMAIN system_section.v
                       \/ ~HasTemplate(c.v["user"])
                 \/ /\ system_section.t = "str"
                    /\ \/ "user_template" \notin DOMAIN c.v
                       \/ c.v["user_template"].t # "str"
                 \/ system_section.t \notin {"map", "str"}

\* C17: a load that reads a template file lacking a field required for its
\* shape (no system; an object system without user, role, task or
\* user.template; a string system without a string user_template; a system
\* that is neither; an empty or non-mapping file) raises ValueError and leaves
\* the cache as it was.
C17_DefectiveFails ==
    [][ (LoadMiss /\ Defective(LoadedFile))
            => (last'.exc = "ValueError" /\ cache' = cache) ]_vars

\* C20: every prompt definition load returns, and every one held in the cache,
\* has a non-empty system string and a non-empty user_template string.
NonEmptyStr(x) == x.t = "str" /\ x.v # <<>>
WellFormed(prompts) == NonEmptyStr(prompts.system) /\ NonEmptyStr(prompts.user_template)
C20_PromptsNonEmpty ==
    /\ \A key \in DOMAIN cache : WellFormed(cache[key])
    /\ (last.op \in {"load", "reload"} /\ last.exc = NoExc) => WellFormed(last.ret)

(***************************************************************************)
(* BaseAgent.__init__, lines 70-106: the prompts of a new agent.  The      *)
(* constructor makes its own PromptLoader (empty cache) for the language   *)
(* of the configuration and loads the template of agent_name; language,    *)
(* cache and last are the state of that loader.                            *)
(***************************************************************************)
NotConstructed ==
    [pc |-> "none", use_prompt_loader |-> FALSE, agent_name |-> <<>>,
     prompts |-> NoPrompts, caught |-> NoExc, logged |-> "none", exc |-> NoExc]

\* a constructor that lets the not-found error out
__init___strict(use_prompt_loader, agent_name) ==
    LET o    == load(EmptyCache, agent_name, <<"latest">>)
        self == [NotConstructed EXCEPT !.pc = "constructed", !.agent_name = agent_name,
                                       !.use_prompt_loader = use_prompt_loader]
        call_load == Call("load", agent_name, <<"latest">>, o.exc, o.ret, o.opened)
    IN  IF ~use_prompt_loader THEN [self |-> self, cache |-> cache, last |-> last]
        ELSE IF o.exc = NoExc
        THEN [self |-> [self EXCEPT !.prompts = o.ret, !.logged = "debug"],
              cache |-> o.cache, last |-> call_load]
        ELSE IF o.exc = "FileNotFoundError"
        THEN [self |-> [self EXCEPT !.pc = "failed", !.exc = o.exc],
              cache |-> o.cache, last |-> call_load]
        ELSE [self |-> [self EXCEPT !.caught = o.exc, !.logged = "error"],
              cache |-> o.cache, last |-> call_load]

__init__(use_prompt_loader, agent_name) ==
    LET o    == load(EmptyCache, agent_name, <<"latest">>)       \* lines 84, 88
        self == [NotConstructed EXCEPT !.pc = "constructed", !.agent_name = agent_name,
                                       !.use_prompt_loader = use_prompt_loader]
        call_load == Call("load", agent_name, <<"latest">>, o.exc, o.ret, o.opened)
    IN  IF ~use_prompt_loader THEN [self |-> self, cache |-> cache, last |-> last]
        ELSE IF o.exc = NoExc
        THEN [self |-> [self EXCEPT !.prompts = o.ret, !.logged = "debug"],
              cache |-> o.cache, last |-> call_load]
        ELSE IF o.exc = "FileNotFoundError"                       \* lines 92-98
        THEN [self |-> [self EXCEPT !.caught = o.exc, !.logged = "warning"],
              cache |-> o.cache, last |-> call_load]
        ELSE [self |-> [self EXCEPT !.caught = o.exc, !.logged = "error"],   \* 99-106
              cache |-> o.cache, last |-> call_load]

\* BaseAgent.has_prompts()
has_prompts(self) == self.prompts # NoPrompts

\* BaseAgent.get_prompt(prompt_type); YNull is None
get_prompt(self, prompt_type) ==
    IF self.prompts # NoPrompts /\ prompt_type \in DOMAIN self.prompts
    THEN self.prompts[prompt_type]
    ELSE YNull

PromptTypes == {"system", "user_template", "output_format", "other"}

\* the template files an agent is constructed over: one file of any shape next
\* to the usual ones, or no file at all (no language directory)
ConstructInit ==
    /\ language \in Langs
    /\ cache = EmptyCache
    /\ files \in {[InitialFiles EXCEPT ![TemplateSlot] = content] : content \in TemplateFiles}
                    \cup {[slot \in Slots |-> Missing]}
    /\ last = Call("init", <<>>, <<>>, NoExc, NoPrompts, FALSE)
    /\ edits = 0
    /\ loaded = NoneLoaded
    /\ reads = NoReads
    /\ agent = NotConstructed
    /\ env_model = "m"
    /\ token_tracker = "none"
    /\ max_retries = 3
    /\ usage_history = <<>>
    /\ stats_calls = 0
    /\ log = <<>>
    /\ call = NoCall
    /\ ncalls = 0

Construct(use_prompt_loader, agent_name) ==
    /\ agent.pc = "none"
    /\ LET made == __init__(use_prompt_loader, agent_name)
       IN  /\ agent' = made.self
           /\ cache' = made.cache
           /\ last' = made.last
    /\ UNCHANGED <<language, files, edits, loaded, reads>>

\* call_llm on the constructed agent, with the prompts the caller passes
AgentCall(words) == agent.pc = "constructed" /\ CallLLM(NoModel, NoStage, words)

(***************************************************************************)
(* Properties of BaseAgent construction.                                   *)
(***************************************************************************)
AgentFile == files[<<language, agent.agent_name>>]
Tried == agent.pc # "none" /\ agent.use_prompt_loader

\* C18: when the template file of the agent is missing, load raises
\* FileNotFoundError (not the validation error), the construction of the
\* BaseAgent catches it and succeeds, the agent has no prompts (has_prompts is
\* false, get_prompt is None for every type) and call_llm can be called on it.
C18_MissingFileTolerated ==
    (Tried /\ AgentFile = Missing) =>
        /\ last.op = "load" /\ last.exc = "FileNotFoundError"
        /\ last.exc # "ValueError"
        /\ agent.pc = "constructed" /\ agent.exc = NoExc
        /\ agent.caught = "FileNotFoundError"
        /\ ~has_prompts(agent)
        /\ \A prompt_type \in PromptTypes : get_prompt(agent, prompt_type) = YNull
        /\ (call.pc # "awaiting" /\ ncalls < MaxCalls) => ENABLED AgentCall(1)

\* an agent built over a missing file has finished a call_llm with a response
C18_Witness ==
    /\ Tried /\ AgentFile = Missing
    /\ agent.pc = "constructed" /\ ~has_prompts(agent)
    /\ call.pc = "returned" /\ call.requests = 1

\* C19: a template of invalid structure is fatal for the construction that
\* meets it: the constructor ends with the validation error, it is not
\* swallowed.
C19_InvalidIsFatal ==
    (Tried /\ Defective(AgentFile)) => (agent.pc = "failed" /\ agent.exc = "ValueError")

(***************************************************************************)
(* Further properties of PromptLoader over every template shape.           *)
(***************************************************************************)
\* the top-level keys defined for the shape of an accepted file
ShapeKeys(c) ==
    IF c.v["system"].t = "map" THEN {"system", "user"} ELSE {"system", "user_template"}

\* C21: every top-level key of an accepted template file that is not a key of
\* its shape is in the prompts built from the file, with the same value, for
\* raw and structured files alike.
C21_ExtraKeysKept ==
    [][ (LoadMiss /\ last'.exc = NoExc) =>
            \A key \in DOMAIN LoadedFile.v \ ShapeKeys(LoadedFile) :
                key \in DOMAIN last'.ret /\ last'.ret[key] = LoadedFile.v[key] ]_vars

\* the lines of a text: the pieces between its line breaks
RECURSIVE SplitLines(_, _)
SplitLines(cs, line) ==
    IF cs = <<>> THEN <<line>>
    ELSE IF Head(cs) = "\n" THEN <<line>> \o SplitLines(Tail(cs), <<>>)
    ELSE SplitLines(Tail(cs), Append(line, Head(cs)))

SectionOrder == <<"requirements", "constraints", "output_format", "notes">>
Header(name) ==
    CASE name = "requirements"  -> "Requirements:"
      [] name = "constraints"   -> "Constraints:"
      [] name = "output_format" -> "Output Format:"
      [] name = "notes"         -> "Notes:"

\* what a present, non-empty section contributes: a blank line, its header,
\* and one line per item (the format text itself, for the output format)
SectionLines(system_section, name) ==
    IF name \notin DOMAIN system_section \/ ~Truthy(system_section[name]) THEN <<>>
    ELSE <<<<>>, <<Header(name)>>>> \o
         (IF name = "output_format" THEN <<system_section[name].v>>
          ELSE [i \in 1..Len(Items(system_section[name])) |->
                   <<"- ">> \o Format(Items(system_section[name])[i])])

FlattenedLines(system_section) ==
    <<<<"You are ">> \o Format(system_section["role"]) \o <<".">>, <<>>,
      system_section["task"].v>>
        \o SectionLines(system_section, SectionOrder[1])
        \o SectionLines(system_section, SectionOrder[2])
        \o SectionLines(system_section, SectionOrder[3])
        \o SectionLines(system_section, SectionOrder[4])

\* where a line is in a sequence of lines (0 if nowhere)
LineIndex(lines, line) ==
    IF \E i \in 1..Len(lines) : lines[i] = line
    THEN CHOOSE i \in 1..Len(lines) : lines[i] = line /\ \A j \in 1..(i - 1) : lines[j] # line
    ELSE 0

\* C23: the system string built from a structured template is the role
\* sentence, the task, then the sections that are present and non-empty in the
\* order requirements, constraints, output format, notes, each as its header
\* and its items; an absent or empty section adds no line, and the headers
\* that appear keep that order.
C23_FlattenOrder ==
    [][ (LoadMiss /\ last'.exc = NoExc /\ LoadedFile.v["system"].t = "map") =>
            LET system_section == LoadedFile.v["system"].v
                lines          == SplitLines(last'.ret["system"].v, <<>>)
            IN  /\ lines = FlattenedLines(system_section)
                /\ \A i, j \in 1..4 :
                      (i < j /\ LineIndex(lines, <<Header(SectionOrder[i])>>) > 0
                             /\ LineIndex(lines, <<Header(SectionOrder[j])>>) > 0)
                          => LineIndex(lines, <<Header(SectionOrder[i])>>)
                               < LineIndex(lines, <<Header(SectionOrder[j])>>)
                /\ \A n \in SectionNames :
                      (n \notin DOMAIN system_section \/ ~Truthy(system_section[n]))
                          => LineIndex(lines, <<Header(n)>>) = 0 ]_vars

\* a template with empty requirements, no output format, and constraints and
\* notes was loaded: its system string has the two headers, constraints first
C23_Witness ==
    /\ last.op = "load" /\ last.exc = NoExc /\ last.agent_name = <<"a">>
    /\ language = "zh"
    /\ files[TemplateSlot].t = "map"
    /\ "system" \in DOMAIN files[TemplateSlot].v
    /\ files[TemplateSlot].v["system"].t = "map"
    /\ LET system_section == files[TemplateSlot].v["system"].v
           lines          == SplitLines(last.ret["system"].v, <<>>)
       IN  /\ DOMAIN system_section =
                 {"role", "task", "requirements", "constraints", "notes"}
           /\ system_section["requirements"] = YList(<<>>)
           /\ Truthy(system_section["constraints"]) /\ Truthy(system_section["notes"])
           /\ LineIndex(lines, <<"Requirements:">>) = 0
           /\ LineIndex(lines, <<"Constraints:">>) = 5
           /\ LineIndex(lines, <<"Notes:">>) = 8

(***************************************************************************)
(* The caller of load changes the dictionary it was given.  load returns   *)
(* the object it stores in (or finds in) the cache, lines 70 and 108-110,  *)
(* so the change is made to the cache entry.                               *)
(***************************************************************************)
Scribble == YStr(<<"X">>)

CallerMutate ==
    LET cache_key == CacheKey(last.agent_name, last.version, language)
    IN  /\ last.op \in {"load", "reload"} /\ last.exc = NoExc
        /\ last.ret["system"] # Scribble
        /\ cache' = [cache EXCEPT ![cache_key] = [last.ret EXCEPT !["system"] = Scribble]]
        /\ last' = Call("mutate", last.agent_name, last.version, NoExc, NoPrompts, FALSE)
        /\ UNCHANGED <<language, files, edits, loaded, reads>>

\* C22: whatever the caller did to a value load returned, a later load of the
\* same arguments (no reload, clear_cache or set_language in between) returns
\* a value equal to the one first built.
C22_LoadedImmutable ==
    [][ (last'.op = "load" /\ loaded[<<last'.agent_name, last'.version>>] # NoPrompts)
            => (last'.exc = NoExc
                /\ last'.ret = loaded[<<last'.agent_name, last'.version>>]) ]_vars

(***************************************************************************)
(* Usage tracking shared by concurrent tasks (C24).  A task runs until it  *)
(* awaits; TerminalDisplay.add_token_usage, BaseIdeaAgent.get_stats and    *)
(* reset_stats contain no await, so each is one step of the task that      *)
(* calls it and the tasks interleave call by call.  LLMStats is not in the *)
(* sources: of it only the count of add_call since the last reset is kept. *)
(***************************************************************************)
MaxAdds == 3       \* usage additions in one behaviour

Tasks  == {1, 2}
Models == {"m1", "m2"}
InputTokens  == {1, 2}
OutputTokens == {0, 4}

TokenUsage(input_tokens, output_tokens) ==
    [input_tokens |-> input_tokens, output_tokens |-> output_tokens]
NoUsage == [m \in {} |-> TokenUsage(0, 0)]
NoStats == [made |-> FALSE, calls |-> 0]          \* _shared_stats is None

\* an add_token_usage that leaves the output total alone
add_token_usage_half(d, model, input_tokens, output_tokens) ==
    LET before == IF model \in DOMAIN d.token_usage THEN d.token_usage[model]
                  ELSE TokenUsage(0, 0)
        usage  == TokenUsage(before.input_tokens + input_tokens,
                             before.output_tokens + output_tokens)
    IN  [token_usage  |-> [m \in DOMAIN d.token_usage \cup {model} |->
                              IF m = model THEN usage ELSE d.token_usage[m]],
         total_tokens |-> TokenUsage(d.total_tokens.input_tokens + input_tokens,
                                     d.total_tokens.output_tokens)]

\* TerminalDisplay.add_token_usage(model, input_tokens, output_tokens), lines 146-157
add_token_usage(d, model, input_tokens, output_tokens) ==
    LET before == IF model \in DOMAIN d.token_usage THEN d.token_usage[model]
                  ELSE TokenUsage(0, 0)                     \* TokenUsage(model=model)
        usage  == TokenUsage(before.input_tokens + input_tokens,
                             before.output_tokens + output_tokens)
    IN  [token_usage  |-> [m \in DOMAIN d.token_usage \cup {model} |->
                              IF m = model THEN usage ELSE d.token_usage[m]],
         total_tokens |-> TokenUsage(d.total_tokens.input_tokens + input_tokens,
                                     d.total_tokens.output_tokens + output_tokens)]

\* BaseIdeaAgent.get_stats(): the shared tracker, made on first use
get_stats(stats) == IF stats = NoStats THEN [made |-> TRUE, calls |-> 0] ELSE stats

\* BaseIdeaAgent.reset_stats()
reset_stats(stats) == IF stats # NoStats THEN [made |-> TRUE, calls |-> 0] ELSE stats

UsageInit ==
    /\ display = [token_usage |-> NoUsage, total_tokens |-> TokenUsage(0, 0)]
    /\ shared_stats = NoStats
    /\ additions = <<>>

\* a task reports the usage of one completion to the display
AddTokenUsage(task, model, input_tokens, output_tokens) ==
    /\ Len(additions) < MaxAdds
    /\ display' = add_token_usage(display, model, input_tokens, output_tokens)
    /\ additions' = Append(additions, [task |-> task, kind |-> "tokens", model |-> model,
                                       input_tokens |-> input_tokens,
                                       output_tokens |-> output_tokens])
    /\ UNCHANGED shared_stats

\* a task ends BaseIdeaAgent.call_llm: stats = self.get_stats(); stats.add_call(...)
AddCall(task) ==
    /\ Len(additions) < MaxAdds
    /\ shared_stats' = [get_stats(shared_stats) EXCEPT !.calls = @ + 1]
    /\ additions' = Append(additions, [task |-> task, kind |-> "call", model |-> "",
                                       input_tokens |-> 0, output_tokens |-> 0])
    /\ UNCHANGED display

\* a task resets the shared tracker; the calls recorded so far are dropped
ResetStats ==
    /\ shared_stats # reset_stats(shared_stats)
    /\ shared_stats' = reset_stats(shared_stats)
    /\ additions' = SelectSeq(additions, LAMBDA a : a.kind # "call")
    /\ UNCHANGED display

(***************************************************************************)
(* Properties of usage tracking.                                           *)
(***************************************************************************)
\* the sum of the values of a function with a finite domain
RECURSIVE SumOf(_, _)
SumOf(f, indices) ==
    IF indices = {} THEN 0
    ELSE LET x == CHOOSE y \in indices : TRUE IN f[x] + SumOf(f, indices \ {x})
Total(f) == SumOf(f, DOMAIN f)

Recorded(kind) == {i \in 1..Len(additions) : additions[i].kind = kind}

\* C24: whatever the order in which the tasks made their additions, the
\* totals of the display equal the sums over its per-model entries and the
\* sums of the additions made, and the shared tracker has counted each call
\* once.
C24_TotalsAreSums ==
    /\ display.total_tokens.input_tokens
          = Total([m \in DOMAIN display.token_usage |-> display.token_usage[m].input_tokens])
    /\ display.total_tokens.output_tokens
          = Total([m \in DOMAIN display.token_usage |-> display.token_usage[m].output_tokens])
    /\ display.total_tokens.input_tokens
          = Total([i \in Recorded("tokens") |-> additions[i].input_tokens])
    /\ display.total_tokens.output_tokens
          = Total([i \in Recorded("tokens") |-> additions[i].output_tokens])
    /\ get_stats(shared_stats).calls = Cardinality(Recorded("call"))

\* both tasks have added usage for both models, in alternation
C24_Witness ==
    /\ Len(additions) = 3
    /\ additions[1].task = 1 /\ additions[2].task = 2 /\ additions[3].task = 1
    /\ \A i \in 1..3 : additions[i].kind = "tokens"
    /\ additions[1].model = additions[3].model /\ additions[2].model # additions[1].model
    /\ display.total_tokens.output_tokens = 8

(***************************************************************************)
(* Log events of BaseAgent.call_llm.                                       *)
(***************************************************************************)
Event(kind) == [kind |-> kind, agent_name |-> AGENT_NAME, stage |-> call.stage]

\* C25: in one BaseAgent.call_llm the input event is logged before the
\* request is made, the output event only once the request has succeeded and
\* the usage is recorded; both carry the agent name and one stage label, the
\* stage the caller passed or else the agent name; a failed request leaves the
\* input event alone, and a call that made no request logged nothing.
C25_LogEvents ==
    (call.kind = "base" /\ call.pc # "idle") =>
        /\ call.requests = 1 =>
              call.stage = IF call.stage_arg # NoStage THEN call.stage_arg ELSE AGENT_NAME
        /\ call.pc = "awaiting" => (call.requests = 1 /\ Logged = <<Event("input")>>)
        /\ call.pc = "returned" =>
              /\ Logged = <<Event("input"), Event("output")>>
              /\ token_tracker # "none" => Len(Added) = 1
        /\ (call.pc = "raised" /\ call.requests = 1) => Logged = <<Event("input")>>
        /\ (call.pc = "raised" /\ call.requests = 0) => Logged = <<>>

\* a call given the stage "plan" returned, and an earlier call had failed
C25_Witness ==
    /\ call.kind = "base" /\ call.pc = "returned" /\ call.stage_arg = "plan"
    /\ token_tracker = "basic" /\ ncalls = 2
    /\ Len(log) = 3 /\ log[1].kind = "input" /\ log[2].kind = "input"
    /\ log[1].stage = AGENT_NAME /\ log[3] = Event("output")

(***************************************************************************)
(* ConfigManager (C26, C29).  The configuration has two sections, each a   *)
(* nested dictionary with one key; a dictionary is an object on the heap   *)
(* and a configuration maps its sections to objects, so that the shallow   *)
(* copy load_config returns shares its sections with the cache.  Threads   *)
(* interleave between the statements of save_config; what is done under    *)
(* the lock is one step.                                                   *)
(***************************************************************************)
MaxOps == 3        \* calls of load_config and save_config and caller changes in one behaviour

Threads  == {1, 2}
Sections == {"llm", "paths"}
Settings == {1, 2}

NoConfig == [s \in {} |-> 0]
InitialContent == [s \in Sections |-> 0]
NoUpdate == [section |-> "", value |-> 0]
ThreadIdle ==
    [pc |-> "idle", kind |-> "none", update |-> NoUpdate, current |-> NoConfig,
     ret |-> "none"]

\* yaml.safe_load: new objects for the sections of the file
Parsed(h, content) ==
    [heap   |-> h \o [i \in 1..Cardinality(Sections) |-> content[SetToSeq(Sections)[i]]],
     config |-> [s \in Sections |->
                    Len(h) + CHOOSE i \in 1..Cardinality(Sections) : SetToSeq(Sections)[i] = s]]

\* the values a configuration holds: what yaml.safe_dump writes
Dumped(h, config) == [s \in DOMAIN config |-> h[config[s]]]

\* ConfigManager.load_config(force_reload), lines 41-56, with the file present
\* and readable: parse when there is no cache, on force_reload or when the file
\* is newer; return self._config_cache.copy()
load_config(h, manager, mtime, content, force_reload) ==
    LET fresh  == manager.cache = NoConfig \/ force_reload \/ mtime > manager.last_mtime
        parsed == Parsed(h, content)
    IN  [heap    |-> IF fresh THEN parsed.heap ELSE h,
         manager |-> IF fresh THEN [cache |-> parsed.config, last_mtime |-> mtime]
                              ELSE manager,
         ret     |-> IF fresh THEN parsed.config ELSE manager.cache]

\* deep_update(target, source) of save_config, lines 74-79, for a source with
\* one section: merge into the section's dictionary when the target has it,
\* else add a new one
deep_update(h, target, source) ==
    IF source.section \in DOMAIN target
    THEN [heap   |-> [h EXCEPT ![target[source.section]] = source.value],
          config |-> target]
    ELSE [heap   |-> Append(h, source.value),
          config |-> [s \in DOMAIN target \cup {source.section} |->
                         IF s = source.section THEN Len(h) + 1 ELSE target[s]]]

ConfigInit ==
    /\ disk = [content |-> InitialContent, mtime |-> 1]
    /\ heap = <<>>
    /\ cm = [cache |-> NoConfig, last_mtime |-> 0]
    /\ threads = [t \in Threads |-> ThreadIdle]
    /\ ops = 0

Resting(t) == threads[t].pc \in {"idle", "done"}

\* a caller calls load_config() and keeps what it returns
LoadConfig(t) ==
    /\ Resting(t) /\ ops < MaxOps
    /\ LET o == load_config(heap, cm, disk.mtime, disk.content, FALSE)
       IN  /\ heap' = o.heap
           /\ cm' = o.manager
           /\ threads' = [threads EXCEPT ![t] =
                             [ThreadIdle EXCEPT !.pc = "done", !.kind = "load",
                                                !.current = o.ret]]
    /\ ops' = ops + 1
    /\ UNCHANGED disk

\* the caller assigns inside a section of the configuration it was given
MutateNested(t, section, value) ==
    /\ threads[t].pc = "done" /\ threads[t].kind \in {"load", "mutate"} /\ ops < MaxOps
    /\ section \in DOMAIN threads[t].current
    /\ heap[threads[t].current[section]] # value
    /\ heap' = [heap EXCEPT ![threads[t].current[section]] = value]
    /\ threads' = [threads EXCEPT ![t].kind = "mutate"]
    /\ ops' = ops + 1
    /\ UNCHANGED <<disk, cm>>

\* the caller deletes a section of the configuration it was given
MutateTop(t, section) ==
    /\ threads[t].pc = "done" /\ threads[t].kind \in {"load", "mutate"} /\ ops < MaxOps
    /\ section \in DOMAIN threads[t].current
    /\ threads' = [threads EXCEPT ![t].kind = "mutate",
                                  ![t].current = [s \in DOMAIN @ \ {section} |-> @[s]]]
    /\ ops' = ops + 1
    /\ UNCHANGED <<disk, cm, heap>>

\* save_config(config), line 66: load_config(force_reload=True)
SaveLoad(t, section, value) ==
    /\ Resting(t) /\ ops < MaxOps
    /\ LET o == load_config(heap, cm, disk.mtime, disk.content, TRUE)
       IN  /\ heap' = o.heap
           /\ cm' = o.manager
           /\ threads' = [threads EXCEPT ![t] =
                             [ThreadIdle EXCEPT !.pc = "loaded", !.kind = "save",
                                                !.update = [section |-> section,
                                                            value |-> value],
                                                !.current = o.ret]]
    /\ ops' = ops + 1
    /\ UNCHANGED disk

\* save_config, line 81: deep_update(current_config, config)
SaveMerge(t) ==
    /\ threads[t].pc = "loaded"
    /\ LET o == deep_update(heap, threads[t].current, threads[t].update)
       IN  /\ heap' = o.heap
           /\ threads' = [threads EXCEPT ![t].pc = "merged", ![t].current = o.config]
    /\ UNCHANGED <<disk, cm, ops>>

\* save_config, lines 86-99: under the lock, write the file and replace the cache
SaveWrite(t) ==
    /\ threads[t].pc = "merged"
    /\ disk' = [content |-> Dumped(heap, threads[t].current), mtime |-> disk.mtime + 1]
    /\ cm' = [cache |-> threads[t].current, last_mtime |-> disk.mtime + 1]
    /\ threads' = [threads EXCEPT ![t].pc = "done", ![t].ret = "True"]
    /\ UNCHANGED <<heap, ops>>

\* save_config, lines 101-103: the file cannot be written
SaveFail(t) ==
    /\ threads[t].pc = "merged"
    /\ threads' = [threads EXCEPT ![t].pc = "done", ![t].ret = "False"]
    /\ UNCHANGED <<disk, cm, heap, ops>>

(***************************************************************************)
(* Properties of ConfigManager.                                            *)
(***************************************************************************)
Saved(t) == threads[t].kind = "save" /\ threads[t].pc = "done" /\ threads[t].ret = "True"

\* C26: when two threads have saved updates to different sections and both
\* calls returned True, the file and the cache contain both updates.
C26_BothUpdatesKept ==
    (Saved(1) /\ Saved(2) /\ threads[1].update.section # threads[2].update.section) =>
        \A t \in Threads :
            /\ disk.content[threads[t].update.section] = threads[t].update.value
            /\ Dumped(heap, cm.cache)[threads[t].update.section] = threads[t].update.value

\* C29: every configuration load_config returns holds what the file holds,
\* whatever callers did to the configurations returned before and whatever a
\* save merged before it failed.
C29_CacheProtected ==
    [][ \A t \in Threads :
           (threads'[t] # threads[t] /\ threads'[t].kind = "load")
               => Dumped(heap', threads'[t].current) = disk.content ]_vars

(***************************************************************************)
(* The kind of value extract_json_from_text returns.                       *)
(***************************************************************************)
\* C27: every result that is not None is a JSON object or a JSON array, also
\* when the text or its fenced block is a JSON scalar.
C27_ObjectOrArray ==
    (result # Pending /\ ~result.raised /\ result.val # PyNone)
        => result.val.t \in {"obj", "arr"}

(***************************************************************************)
(* The cache key of PromptLoader.                                          *)
(***************************************************************************)
\* C28: loads of different (agent_name, version, language) triples never
\* share a cache entry: while no template file has been changed, a successful
\* load returns the definition of its own agent's file in the current
\* language, never one cached for another triple.
C28_OwnDefinition ==
    (last.op = "load" /\ last.exc = NoExc /\ edits = 0) =>
        LET prompt_file == files[<<language, last.agent_name>>]
        IN  /\ prompt_file \notin {Missing, Unparsable}
            /\ last.ret = _build_prompts(prompt_file,
                                         _validate_config(prompt_file).type).prompts

(***************************************************************************)
(* web_search(query).  The completion is what the Perplexity client        *)
(* returns: the URLs it cites and the search results it used.              *)
(***************************************************************************)
MaxCitations == 2      \* the most citations a completion lists
MaxResults   == 2      \* the most search results a completion carries

Urls     == {"u1", "u2"}
Titles   == {"", "T"}
Snippets == {"", "s"}

SearchItems == [url : Urls, title : Titles, snippet : Snippets]

\* the module and key checks, whether the API call succeeds, and the completion
Requests ==
    [available      : BOOLEAN,
     api_key        : BOOLEAN,
     ok             : BOOLEAN,
     citations      : SeqsUpTo(Urls, MaxCitations),
     search_results : SeqsUpTo(SearchItems, MaxResults)]

EmptyResult    == [citations |-> <<>>, search_results |-> <<>>]
NotSearched == [exc |-> "pending", ret |-> EmptyResult]
Searched(exc, ret) == [exc |-> exc, ret |-> ret]

\* the first item of search_results whose url is citation_url, or 0
FirstMatch(search_results, citation_url) ==
    LET hits == {j \in DOMAIN search_results : search_results[j].url = citation_url}
    IN  IF hits = {} THEN 0 ELSE CHOOSE j \in hits : \A k \in hits : j <= k

\* lines 100-113: the entry of citation number i, matched against search_results
citation_data(i, citation_url, search_results) ==
    LET j == FirstMatch(search_results, citation_url)
    IN  [id        |-> i,
         reference |-> <<"[", i, "]">>,
         url       |-> citation_url,
         title     |-> IF j = 0 THEN "" ELSE search_results[j].title,
         snippet   |-> IF j = 0 THEN "" ELSE search_results[j].snippet]

\* web_search: the citations are built (lines 98-115) while result["search_results"]
\* is still the empty list of line 94; the search results are copied after (118-128)
web_search(req) ==
    IF ~req.available THEN Searched("ImportError", EmptyResult)
    ELSE IF ~req.api_key THEN Searched("ValueError", EmptyResult)
    ELSE IF ~req.ok THEN Searched("Exception", EmptyResult)
    ELSE
    LET result0   == EmptyResult
        citations == [i \in 1..Len(req.citations) |->
                         citation_data(i, req.citations[i], result0.search_results)]
    IN  Searched(NoExc, [citations      |-> citations,
                         search_results |-> req.search_results])

SearchInit ==
    /\ request \in Requests
    /\ searched = NotSearched

WebSearch ==
    /\ searched = NotSearched
    /\ searched' = web_search(request)
    /\ UNCHANGED request

\* C30: in the result of web_search, the citations are numbered 1..n in the
\* order the completion lists them, and every citation whose URL is the URL of
\* one of the completion's search results carries the title and the snippet of
\* that search result (the first one with that URL).
C30_CitationsMatched ==
    searched.exc = NoExc =>
        LET citations == searched.ret.citations
        IN  /\ Len(citations) = Len(request.citations)
            /\ \A i \in DOMAIN citations :
                   LET j == FirstMatch(request.search_results, citations[i].url)
                   IN  /\ citations[i].id = i
                       /\ citations[i].url = request.citations[i]
                       /\ j # 0 =>
                              /\ citations[i].title = request.search_results[j].title
                              /\ citations[i].snippet = request.search_results[j].snippet

(***************************************************************************)
(* Specifications: one per component, the other components at rest.        *)
(***************************************************************************)
JsonIdle ==
    /\ text = <<>> /\ form = "free" /\ V = NoValue /\ result = Pending
LoaderIdle ==
    /\ language = "zh" /\ cache = EmptyCache /\ files = [s \in Slots |-> Missing]
    /\ last = Call("init", <<>>, <<>>, NoExc, NoPrompts, FALSE) /\ edits = 0
    /\ loaded = NoneLoaded /\ reads = NoReads

AgentIdle ==
    /\ env_model = NoModel /\ token_tracker = "none" /\ max_retries = 0
    /\ usage_history = <<>> /\ stats_calls = 0 /\ log = <<>>
    /\ call = NoCall /\ ncalls = 0

ConstructIdle == agent = NotConstructed
UsageIdle == UsageInit
ConfigIdle == ConfigInit
SearchIdle ==
    /\ request = [available |-> TRUE, api_key |-> TRUE, ok |-> TRUE,
                  citations |-> <<>>, search_results |-> <<>>]
    /\ searched = NotSearched
RestIdle == UsageIdle /\ ConfigIdle /\ SearchIdle

CoordIdle ==
    /\ max_iterations = 1 /\ cancel = FALSE
    /\ run = [state |-> "idle", iterations |-> 0, gen_calls |-> 0, val_calls |-> 0,
              feedback |-> <<>>, action |-> NoAction, history |-> <<>>,
              result |-> NoResult]

OrganizerIdle ==
    /\ records = 0 /\ mo = [NotStarted EXCEPT !.pc = "off"]

JsonNext ==
    Extract /\ UNCHANGED <<loaderVars, agentVars, coordVars, organizerVars, constructVars, restVars>>
JsonStart == JsonInit /\ LoaderIdle /\ AgentIdle /\ CoordIdle
    /\ OrganizerIdle /\ ConstructIdle /\ RestIdle
SpecJson == JsonStart /\ [][JsonNext]_vars

notLoader == <<jsonVars, agentVars, coordVars, organizerVars, constructVars, restVars>>
LoaderNext ==
    \/ (\E a \in AgentNames, v \in Versions : Load(a, v)) /\ UNCHANGED notLoader
    \/ (\E a \in AgentNames, v \in Versions : Reload(a, v)) /\ UNCHANGED notLoader
    \/ (\E l \in Langs \cup {"fr"} : SetLanguage(l)) /\ UNCHANGED notLoader
    \/ ClearCache /\ UNCHANGED notLoader
    \/ (\E slot \in Slots, content \in Contents \cup {Missing} : WriteFile(slot, content))
          /\ UNCHANGED notLoader
LoaderStart == LoaderInit /\ JsonIdle /\ AgentIdle /\ CoordIdle
    /\ OrganizerIdle /\ ConstructIdle /\ RestIdle
SpecLoader == LoaderStart /\ [][LoaderNext]_vars

notAgent == <<jsonVars, loaderVars, coordVars, organizerVars, constructVars, restVars>>
AgentNext ==
    \/ (\E m \in {NoModel, "m2"}, st \in {NoStage, "plan"}, w \in {1, 3} : CallLLM(m, st, w))
          /\ UNCHANGED notAgent
    \/ (\E r \in Reports \cup {NoReport} : CompleteOk(r)) /\ UNCHANGED notAgent
    \/ CompleteFail /\ UNCHANGED notAgent
    \/ IdeaCallLLM /\ UNCHANGED notAgent
    \/ IdeaCompleteOk /\ UNCHANGED notAgent
    \/ IdeaCompleteFail /\ UNCHANGED notAgent
AgentStart == AgentInit /\ JsonIdle /\ LoaderIdle /\ CoordIdle
    /\ OrganizerIdle /\ ConstructIdle /\ RestIdle
SpecAgent == AgentStart /\ [][AgentNext]_vars

notCoord == <<jsonVars, loaderVars, agentVars, organizerVars, constructVars, restVars>>
CoordNext ==
    \/ Propose /\ UNCHANGED notCoord
    \/ (\E ok \in BOOLEAN : ExtractAction(ok)) /\ UNCHANGED notCoord
    \/ (\E v \in Verdicts, sc \in 0..MaxScore : Validate(v, sc)) /\ UNCHANGED notCoord
    \/ Revise /\ UNCHANGED notCoord
    \/ Cancel /\ UNCHANGED notCoord
CoordStart == CoordInit /\ JsonIdle /\ LoaderIdle /\ AgentIdle
    /\ OrganizerIdle /\ ConstructIdle /\ RestIdle
\* the run is one task that is scheduled until it ends
SpecCoord ==
    /\ CoordStart
    /\ [][CoordNext]_vars
    /\ WF_vars(RunStep /\ UNCHANGED notCoord)

notOrganizer == <<jsonVars, loaderVars, agentVars, coordVars, constructVars, restVars>>
OrganizerNext ==
    \/ Process /\ UNCHANGED notOrganizer
    \/ (\E r \in Responses : PrimaryAnswer(r)) /\ UNCHANGED notOrganizer
    \/ PrimaryFail /\ UNCHANGED notOrganizer
    \/ (\E r \in Responses : FallbackAnswer(r)) /\ UNCHANGED notOrganizer
    \/ FallbackFail /\ UNCHANGED notOrganizer
OrganizerStart == OrganizerInit /\ JsonIdle /\ LoaderIdle /\ AgentIdle
    /\ CoordIdle /\ ConstructIdle /\ RestIdle
SpecOrganizer == OrganizerStart /\ [][OrganizerNext]_vars

TemplatesNext ==
    \/ (\E a \in AgentNames, v \in Versions : Load(a, v)) /\ UNCHANGED notLoader
    \/ (\E a \in AgentNames, v \in Versions : Reload(a, v)) /\ UNCHANGED notLoader
    \/ (\E l \in Langs : SetLanguage(l)) /\ UNCHANGED notLoader
    \/ ClearCache /\ UNCHANGED notLoader
TemplatesStart ==
    TemplatesInit /\ JsonIdle /\ AgentIdle /\ CoordIdle
    /\ OrganizerIdle /\ ConstructIdle /\ RestIdle
SpecTemplates == TemplatesStart /\ [][TemplatesNext]_vars

ConstructNext ==
    \/ (\E u \in BOOLEAN, a \in AgentNames : Construct(u, a))
          /\ UNCHANGED <<jsonVars, agentVars, coordVars, organizerVars, restVars>>
    \/ (\E w \in {1, 3} : AgentCall(w)) /\ UNCHANGED notAgent
    \/ CompleteOk(NoReport) /\ UNCHANGED notAgent
    \/ CompleteFail /\ UNCHANGED notAgent
ConstructStart == ConstructInit /\ JsonIdle /\ CoordIdle /\ OrganizerIdle /\ RestIdle
SpecConstruct == ConstructStart /\ [][ConstructNext]_vars

AliasNext ==
    \/ (\E a \in AgentNames, v \in Versions : Load(a, v)) /\ UNCHANGED notLoader
    \/ (\E a \in AgentNames, v \in Versions : Reload(a, v)) /\ UNCHANGED notLoader
    \/ CallerMutate /\ UNCHANGED notLoader
SpecAlias == LoaderStart /\ [][AliasNext]_vars

notUsage == <<jsonVars, loaderVars, agentVars, coordVars, organizerVars, constructVars,
              configVars, searchVars>>
UsageNext ==
    \/ (\E t \in Tasks, m \in Models, i \in InputTokens, o \in OutputTokens :
            AddTokenUsage(t, m, i, o)) /\ UNCHANGED notUsage
    \/ (\E t \in Tasks : AddCall(t)) /\ UNCHANGED notUsage
    \/ ResetStats /\ UNCHANGED notUsage
UsageStart ==
    UsageInit /\ JsonIdle /\ LoaderIdle /\ AgentIdle /\ CoordIdle
    /\ OrganizerIdle /\ ConstructIdle /\ ConfigIdle /\ SearchIdle
SpecUsage == UsageStart /\ [][UsageNext]_vars

notConfig == <<jsonVars, loaderVars, agentVars, coordVars, organizerVars, constructVars,
               usageVars, searchVars>>
ConfigNext ==
    \/ (\E t \in Threads : LoadConfig(t)) /\ UNCHANGED notConfig
    \/ (\E t \in Threads, s \in Sections, v \in Settings : MutateNested(t, s, v))
          /\ UNCHANGED notConfig
    \/ (\E t \in Threads, s \in Sections : MutateTop(t, s)) /\ UNCHANGED notConfig
    \/ (\E t \in Threads, s \in Sections, v \in Settings : SaveLoad(t, s, v))
          /\ UNCHANGED notConfig
    \/ (\E t \in Threads : SaveMerge(t)) /\ UNCHANGED notConfig
    \/ (\E t \in Threads : SaveWrite(t)) /\ UNCHANGED notConfig
    \/ (\E t \in Threads : SaveFail(t)) /\ UNCHANGED notConfig
ConfigStart ==
    ConfigInit /\ JsonIdle /\ LoaderIdle /\ AgentIdle /\ CoordIdle
    /\ OrganizerIdle /\ ConstructIdle /\ UsageIdle /\ SearchIdle
SpecConfig == ConfigStart /\ [][ConfigNext]_vars

notSearch == <<jsonVars, loaderVars, agentVars, coordVars, organizerVars, constructVars,
               usageVars, configVars>>
SearchNext ==
    WebSearch /\ UNCHANGED notSearch
SearchStart ==
    SearchInit /\ JsonIdle /\ LoaderIdle /\ AgentIdle /\ CoordIdle
    /\ OrganizerIdle /\ ConstructIdle /\ UsageIdle /\ ConfigIdle
SpecSearch == SearchStart /\ [][SearchNext]_vars

====
